---------------------------- MODULE Spec2Model ----------------------------
(***************************************************************************)
(* A model of the grass SCSS compiler's evaluator pieces:                  *)
(*   - If::eval            (src/src/atrule/if_rule.rs)                     *)
(*   - If::from_tokens     (src/src/atrule/if_rule.rs)                     *)
(*   - Function::args/call (src/src/atrule/function.rs)                    *)
(*   - parse_toplevel / eat_rules (src/src/lib.rs)                         *)
(* Each piece has its own specification (SpecIf, SpecCall, ...); the       *)
(* variables of the other pieces are pinned to their idle values.          *)
(***************************************************************************)
EXTENDS Integers, Sequences, FiniteSets, TLC

VARIABLES
    \* ---- If::eval ----
    if_in,        \* the If being evaluated: [branches, else_]
    if_scope,     \* the scope handed to If::eval
    if_out,       \* NotRun, or the outcome of If::eval
    \* ---- Function::call ----
    fn_body,      \* Function.body: the statements of the function
    fn_scope,     \* Function.scope: the captured scope (with bound arguments)
    call_stack,   \* the active invocations of Function::call, innermost last
    call_ret,     \* NoRet, or the SassResult the last finished invocation returned
    call_log,     \* history: every statement reached and every invocation exit
    call_tmp,     \* the self.scope.clone() of the last i.eval, as eval left it
    \* ---- Function::args ----
    fa_formals,   \* self.args.0: the formal parameters [name, default, is_variadic]
    fa_call,      \* args: the CallArgs [pos, named]
    fa_site,      \* scope: the scope of the call site
    fa_scope,     \* self.scope: the captured scope, receiving the bindings
    fa_idx,       \* the index of the loop over the formal parameters
    fa_res,       \* FaRunning, or the SassResult<Function> returned
    fa_log,       \* history: how each parameter's value was obtained
    \* ---- If::from_tokens ----
    ft_toks,      \* toks: the token stream (one character per token), unread part
    ft_branches,  \* branches collected so far
    ft_else,      \* else_: the tokens of the @else body
    ft_pc,        \* position in from_tokens: "init", "loop", "after", "done"
    ft_res,       \* FtRunning, or the SassResult<If> returned
    ft_rest,      \* history: the construct that follows the chain in the input
    \* ---- StyleSheetParser::parse_toplevel / eat_rules ----
    tl_input,     \* self.lexer: the constructs not yet read
    tl_rules,     \* rules: the output statement list of parse_toplevel
    tl_global,    \* GLOBAL_SCOPE: the root scope
    tl_local,     \* scope: the scope handed to eat_rules
    tl_frames,    \* the active invocations of eat_rules, innermost last
    tl_depth,     \* self.scope: the nesting depth of rule sets
    tl_res,       \* TlRunning, or how parse_toplevel ended
    tl_last,      \* history: the construct read last
    tl_src,       \* history: the stylesheet as it was handed in
    \* ---- a function definition and the calls made to it ----
    ss_def,       \* the stored Function: [scope, args, body]
    ss_caller,    \* the scope of the code that declares and calls the function
    ss_phase,     \* "decl", "idle", "args", "call", or "stop"
    ss_calls,     \* the number of calls finished
    ss_parse,     \* the scope.clone() handed to eat_stmts, as it left it
    ss_prev,      \* history: the working copy's scope when the last call ended
    \* ---- SassMap ----
    sm_map,       \* self.0: the entries [k, v] of the map
    sm_ops,       \* the number of operations applied since SassMap::new()
    sm_last,      \* history: the last operation, its arguments and its result
    sm_prev,      \* history: the entries before the last operation
    sm_born,      \* history: for each key present, when it was inserted
    sm_clock,     \* history: the number of insertions made so far
    \* ---- UnknownAtRule::from_tokens ----
    un_toks,      \* toks: the token stream (one character per token), unread part
    un_params,    \* params: the characters collected so far
    un_body,      \* body of the UnknownAtRule returned
    un_super,     \* super_selector
    un_pc,        \* position in from_tokens: "params", "body", "done"
    un_res,       \* FtRunning, or the SassResult<UnknownAtRule> returned
    un_src,       \* history: the stream as it was handed in
    un_raw,       \* history: raw_body, the statements eat_stmts returned
    \* ---- eat_expr on the styles of a block ----
    ee_toks,      \* toks: the token stream (one character per token), unread part
    ee_values,    \* values of the eat_expr call under way
    ee_stmts,     \* stmts of the loop that calls eat_expr
    ee_pc,        \* "expr" inside eat_expr, "done" when the loop has ended
    ee_res,       \* FtRunning, or the result the loop ended with
    ee_run,       \* 1: the block with the semicolon, 2: the block without
    ee_alt,       \* history: the block without the semicolon
    ee_first,     \* history: what run 1 ended with
    ee_closed     \* history: the block has its closing brace

ifVars   == <<if_in, if_scope, if_out>>
callVars == <<fn_body, fn_scope, call_stack, call_ret, call_log, call_tmp>>
argsVars == <<fa_formals, fa_call, fa_site, fa_scope, fa_idx, fa_res, fa_log>>
tokVars  == <<ft_toks, ft_branches, ft_else, ft_pc, ft_res, ft_rest>>
topVars  == <<tl_input, tl_rules, tl_global, tl_local, tl_frames, tl_depth,
              tl_res, tl_last, tl_src>>
sessVars == <<ss_def, ss_caller, ss_phase, ss_calls, ss_parse, ss_prev>>
mapVars  == <<sm_map, sm_ops, sm_last, sm_prev, sm_born, sm_clock>>
unkVars  == <<un_toks, un_params, un_body, un_super, un_pc, un_res, un_src,
              un_raw>>
exprVars == <<ee_toks, ee_values, ee_stmts, ee_pc, ee_res, ee_run, ee_alt,
              ee_first, ee_closed>>
vars     == <<ifVars, callVars, argsVars, tokVars, topVars, sessVars, mapVars,
              unkVars, exprVars>>
\* What an action of one piece leaves alone: the other pieces.
notIfVars   == <<callVars, argsVars, tokVars, topVars, sessVars, mapVars, unkVars,
                exprVars>>
notCallVars == <<ifVars, argsVars, tokVars, topVars, sessVars, mapVars, unkVars,
                exprVars>>
notArgsVars == <<ifVars, callVars, tokVars, topVars, sessVars, mapVars, unkVars,
                exprVars>>
notTokVars  == <<ifVars, callVars, argsVars, topVars, sessVars, mapVars, unkVars,
                exprVars>>
notTopVars  == <<ifVars, callVars, argsVars, tokVars, sessVars, mapVars, unkVars,
                exprVars>>
\* What the steps between declaration, Function::args and Function::call
\* leave alone.
notFnVars   == <<ifVars, tokVars, topVars, mapVars, unkVars,
                exprVars>>
notMapVars  == <<ifVars, callVars, argsVars, tokVars, topVars, sessVars, unkVars,
                exprVars>>
notUnkVars  == <<ifVars, callVars, argsVars, tokVars, topVars, sessVars, mapVars,
                exprVars>>
notExprVars == <<ifVars, callVars, argsVars, tokVars, topVars, sessVars, mapVars,
                unkVars>>

---------------------------------------------------------------------------
\* Bounds of the model
MaxBranches == 3      \* branches of an @if chain (the @if and its @else ifs)
MaxBody     == 2      \* statements in a function body
MaxParams   == 2      \* formal parameters of a function
MaxPos      == 3      \* positional arguments of a call
MaxElseIf   == 1      \* @else if clauses of a chain in the token stream
MaxItems    == 3      \* constructs of a stylesheet
MaxCalls    == 2      \* calls made to a declared function
MaxOps      == 3      \* operations applied to a SassMap
MaxPieces   == 3      \* pieces of the params of an unknown at-rule
MaxDecls    == 1      \* declarations of a block before its last one

Last(s) == s[Len(s)]
Front(s) == SubSeq(s, 1, Len(s) - 1)

---------------------------------------------------------------------------
\* Values, scopes, expressions

\* A Sass value: a scalar (t is its text) or an ArgList (t = "arglist").
V(s) == [t |-> s, items |-> <<>>]
ArgListV(items) == [t |-> "arglist", items |-> items]
NoValue == V("none")

\* Spans: a statement's span is its path in the body; the function's
\* definition has span FnPos; NoPos stands for a span inside an expression.
NoPos == <<>>
FnPos == <<0>>

\* SassResult<Value>
Ok(v) == [ok |-> TRUE, val |-> v, msg |-> "", pos |-> NoPos]
Err(m, p) == [ok |-> FALSE, val |-> NoValue, msg |-> m, pos |-> p]

MsgNotAllowed == "This at-rule is not allowed here."
MsgNoReturn   == "Function finished without @return."
MsgContent    == "@content is only allowed within mixin declarations."
MsgUndefined  == "Undefined variable."
MsgTodoFor    == "not yet implemented: @for in function"

\* Scope: a finite map from variable names to values.
EmptyScope == [n \in {} |-> NoValue]
get_var(scope, name) ==
    IF name \in DOMAIN scope THEN Ok(scope[name]) ELSE Err(MsgUndefined, NoPos)
insert_var(scope, name, v) ==
    [n \in DOMAIN scope \cup {name} |-> IF n = name THEN v ELSE scope[n]]

\* The tokens of an expression: a literal or a variable reference.
Lit(s) == [k |-> "lit", v |-> s]
Var(n) == [k |-> "var", v |-> n]

\* Value::from_tokens / Value::from_vec: evaluate expression tokens in a scope.
ValueFromTokens(e, scope) ==
    IF e.k = "lit" THEN Ok(V(e.v)) ELSE get_var(scope, e.v)

\* Value::is_true: only false and null are falsy.
is_true(v) == v.t \notin {"false", "null"}

---------------------------------------------------------------------------
\* Statements

\* A statement (or the unevaluated tokens of one, in a branch body).
Stmt(kind, e) == [kind |-> kind, expr |-> e, branches |-> <<>>, else_ |-> <<>>]
Branch(cond, toks) == [cond |-> cond, toks |-> toks]
\* A variable declaration `$name: e;` among the statements of a body.
VarStmt(name, e) ==
    [kind |-> "var", expr |-> e, branches |-> <<>>, else_ |-> <<>>,
     name |-> name]
IfStmt(branches, else_) ==
    [kind |-> "if", expr |-> Lit("null"), branches |-> branches, else_ |-> else_]

\* ruleset_eval: parse and evaluate the tokens of a body, statement by
\* statement, in order. A style's value is evaluated (and may fail); an
\* @return keeps its expression tokens unevaluated.
RECURSIVE ruleset_eval(_, _, _)
ruleset_eval(toks, scope, acc) ==
    IF toks = <<>> THEN [ok |-> TRUE, stmts |-> acc, msg |-> "", pos |-> NoPos]
    ELSE LET t == Head(toks) IN
         IF t.kind = "style"
         THEN LET v == ValueFromTokens(t.expr, scope) IN
              IF ~v.ok
              THEN [ok |-> FALSE, stmts |-> <<>>, msg |-> v.msg, pos |-> v.pos]
              ELSE ruleset_eval(Tail(toks), scope,
                                Append(acc, Stmt("style", Lit(v.val.t))))
         ELSE IF t.kind = "var"
         THEN LET v == ValueFromTokens(t.expr, scope) IN
              IF ~v.ok
              THEN [ok |-> FALSE, stmts |-> <<>>, msg |-> v.msg, pos |-> v.pos]
              ELSE ruleset_eval(Tail(toks), insert_var(scope, t.name, v.val), acc)
         ELSE ruleset_eval(Tail(toks), scope, Append(acc, t))

\* The scope as ruleset_eval leaves it: a variable declaration among the
\* statements is a write to the scope that was handed in.
RECURSIVE ruleset_scope(_, _)
ruleset_scope(toks, scope) ==
    IF toks = <<>> THEN scope
    ELSE LET t == Head(toks) IN
         IF t.kind \in {"style", "var"} /\ ~ValueFromTokens(t.expr, scope).ok
         THEN scope
         ELSE IF t.kind = "var"
         THEN ruleset_scope(Tail(toks),
                            insert_var(scope, t.name,
                                       ValueFromTokens(t.expr, scope).val))
         ELSE ruleset_scope(Tail(toks), scope)

---------------------------------------------------------------------------
\* If::eval

\* The loop over the branches (if_rule.rs 113-120), from branch i on:
\* found/idx is the branch taken, evald the number of conditions evaluated.
RECURSIVE FindBranchNoBreak(_, _, _, _)
FindBranchNoBreak(branches, scope, i, best) ==
    IF i > Len(branches)
    THEN [ok |-> TRUE, found |-> best > 0, idx |-> best,
          evald |-> Len(branches), msg |-> "", pos |-> NoPos]
    ELSE LET val == ValueFromTokens(branches[i].cond, scope) IN
         IF ~val.ok
         THEN [ok |-> FALSE, found |-> FALSE, idx |-> 0, evald |-> i,
               msg |-> val.msg, pos |-> val.pos]
         ELSE FindBranchNoBreak(branches, scope, i + 1,
                                IF is_true(val.val) THEN i ELSE best)

RECURSIVE FindBranchFrom(_, _, _)
FindBranchFrom(branches, scope, i) ==
    IF i > Len(branches)
    THEN [ok |-> TRUE, found |-> FALSE, idx |-> 0, evald |-> Len(branches),
          msg |-> "", pos |-> NoPos]
    ELSE LET val == ValueFromTokens(branches[i].cond, scope) IN
         IF ~val.ok
         THEN [ok |-> FALSE, found |-> FALSE, idx |-> 0, evald |-> i,
               msg |-> val.msg, pos |-> val.pos]
         ELSE IF is_true(val.val)
              THEN [ok |-> TRUE, found |-> TRUE, idx |-> i, evald |-> i,
                    msg |-> "", pos |-> NoPos]
              ELSE FindBranchFrom(branches, scope, i + 1)

FindBranchBroken(branches, scope) == FindBranchNoBreak(branches, scope, 1, 0)

FindBranch(branches, scope) == FindBranchFrom(branches, scope, 1)

\* If::eval: the outcome, with the branch selected (sel = 0: the @else body)
\* and the number of conditions evaluated.
IfEval(i, scope) ==
    LET f == FindBranch(i.branches, scope) IN
    IF ~f.ok
    THEN [ok |-> FALSE, stmts |-> <<>>, msg |-> f.msg, pos |-> f.pos,
          sel |-> -1, evald |-> f.evald]
    ELSE LET toks == IF f.found THEN i.branches[f.idx].toks ELSE i.else_
             r == ruleset_eval(toks, scope, <<>>)
         IN  [ok |-> r.ok, stmts |-> r.stmts, msg |-> r.msg, pos |-> r.pos,
              sel |-> f.idx, evald |-> f.evald]

\* The scope handed to If::eval, as eval leaves it.
IfEvalScope(i, scope) ==
    LET f == FindBranch(i.branches, scope) IN
    IF ~f.ok THEN scope
    ELSE ruleset_scope(IF f.found THEN i.branches[f.idx].toks ELSE i.else_,
                       scope)

NotRun == [ok |-> FALSE, stmts |-> <<>>, msg |-> "not run", pos |-> NoPos,
           sel |-> -1, evald |-> 0]
NoIf == [branches |-> <<>>, else_ |-> <<>>]

\* Inputs of SpecIf: conditions over literals and variables ($x is bound to
\* false, $u is unbound); the body of branch i names i, so that the selection
\* shows in the statements, and may hold a style whose value fails.
IfConds == {Lit("true"), Lit("false"), Lit("null"), Lit("0"),
            Var("x"), Var("u")}
IfScope == insert_var(EmptyScope, "x", V("false"))
BranchBody(i, failing) ==
    IF failing
    THEN <<Stmt("style", Lit(ToString(i))), Stmt("style", Var("u"))>>
    ELSE <<Stmt("style", Lit(ToString(i)))>>
ElseBodies == {<<>>, <<Stmt("style", Lit("else"))>>}

IfInput(k, cs, fs, e) ==
    [branches |-> [j \in 1..k |-> Branch(cs[j], BranchBody(j, fs[j]))],
     else_ |-> e]

IdleIf == if_in = NoIf /\ if_scope = EmptyScope /\ if_out = NotRun

InitIfEval ==
    /\ \E k \in 1..MaxBranches :
          \E cs \in [1..k -> IfConds], fs \in [1..k -> BOOLEAN], e \in ElseBodies :
             if_in = IfInput(k, cs, fs, e)
    /\ if_scope = IfScope
    /\ if_out = NotRun

EvalIf ==
    /\ if_in # NoIf
    /\ if_out = NotRun
    /\ if_out' = IfEval(if_in, if_scope)
    /\ UNCHANGED <<if_in, if_scope, notIfVars>>

\* ---- C1 ----
CondValue(j) == ValueFromTokens(if_in.branches[j].cond, if_scope)
CondTruthy(j) == CondValue(j).ok /\ CondValue(j).val.t \notin {"false", "null"}
\* The branches at which the chain stops: a truthy or a failing condition.
Stops == {j \in 1..Len(if_in.branches) : CondTruthy(j) \/ ~CondValue(j).ok}
FirstStop == IF Stops = {} THEN 0
             ELSE CHOOSE j \in Stops : \A k \in Stops : j <= k
BodyTag(sel) == IF sel = 0 THEN "else" ELSE ToString(sel)

\* C1: If::eval evaluates the conditions in source order up to the first
\* truthy one and no further, and evaluates exactly the body of that branch;
\* when no condition is truthy it evaluates the @else body, and with no
\* @else the result is the empty statement list. (A condition that fails to
\* evaluate ends the evaluation with its error and no statements.)
C1_IfSelectsFirstTruthy ==
    if_out # NotRun =>
        LET n == Len(if_in.branches)
            s == FirstStop
            toks == IF s = 0 THEN if_in.else_ ELSE if_in.branches[s].toks
            body == ruleset_eval(toks, if_scope, <<>>)
        IN  IF s > 0 /\ ~CondValue(s).ok
            THEN /\ ~if_out.ok
                 /\ if_out.stmts = <<>>
                 /\ if_out.msg = CondValue(s).msg
                 /\ if_out.evald = s
            ELSE /\ if_out.sel = s
                 /\ if_out.evald = (IF s = 0 THEN n ELSE s)
                 /\ if_out.ok = body.ok
                 /\ if_out.stmts = body.stmts
                 /\ \A k \in 1..Len(if_out.stmts) :
                        if_out.stmts[k].expr.v = BodyTag(s)
                 /\ (s = 0 /\ if_in.else_ = <<>>) =>
                        (if_out.ok /\ if_out.stmts = <<>>)

\* Witness of C1: the second of three branches is selected although the third
\* condition is truthy too, and its body is the result.
C1_Witness ==
    /\ if_out # NotRun
    /\ Len(if_in.branches) = 3
    /\ if_in.branches[1].cond = Lit("null")
    /\ if_in.branches[2].cond = Lit("0")
    /\ if_in.branches[3].cond = Lit("true")
    /\ if_out.ok
    /\ if_out.sel = 2
    /\ if_out.evald = 2
    /\ if_out.stmts = <<Stmt("style", Lit("2"))>>

---------------------------------------------------------------------------
\* Function::call

\* The recursion of Function::call is a stack of invocations. A frame is one
\* invocation: its statement list, the index of the statement its loop is
\* at, and the span prefix of its statements (<<>> for the function body,
\* <<i>> for the statements of the @if at index i of the body).
Frame(stmts, path) == [stmts |-> stmts, idx |-> 1, path |-> path]
NoRet == [ok |-> FALSE, val |-> NoValue, msg |-> "none", pos |-> NoPos]
Panic(m) == [ok |-> FALSE, val |-> NoValue, msg |-> m, pos |-> <<-1>>]

\* History entries: a statement reached by the loop of an invocation, and
\* the exit of an invocation with the result it returned.
Reach(span, kind) == [ev |-> "reach", path |-> span, kind |-> kind, res |-> NoRet]
Exit(path, res)   == [ev |-> "exit", path |-> path, kind |-> "", res |-> res]

CurFrame == Last(call_stack)
CurStmt  == CurFrame.stmts[CurFrame.idx]
CurSpan  == Append(CurFrame.path, CurFrame.idx)
InLoop   == /\ call_stack # <<>>
            /\ call_ret = NoRet
            /\ CurFrame.idx <= Len(CurFrame.stmts)

\* A function without @return that yields null.
NoReturnResultNull == Ok(V("null"))
\* function.rs 131: the loop ran out of statements.
NoReturnResult == Err(MsgNoReturn, FnPos)

\* function.rs 128: any other statement.
NotAllowedResult(span) == Err(MsgNotAllowed, span)

\* The current invocation returns res to its caller.
ReturnFromCall(res, reached) ==
    /\ call_ret' = res
    /\ call_stack' = Front(call_stack)
    /\ call_log' = call_log \o reached \o <<Exit(CurFrame.path, res)>>

\* function.rs 111-118: Stmt::AtRule(AtRule::Return(toks))
CallReturn ==
    /\ InLoop
    /\ CurStmt.kind = "return"
    /\ ReturnFromCall(ValueFromTokens(CurStmt.expr, fn_scope),
                      <<Reach(CurSpan, "return")>>)
    /\ UNCHANGED <<fn_body, fn_scope, call_tmp, notCallVars>>

\* function.rs 119: todo!("@for in function") panics; the process unwinds.
CallFor ==
    /\ InLoop
    /\ CurStmt.kind = "for"
    /\ call_ret' = Panic(MsgTodoFor)
    /\ call_stack' = <<>>
    /\ call_log' = Append(call_log, Reach(CurSpan, "for"))
    /\ UNCHANGED <<fn_body, fn_scope, call_tmp, notCallVars>>

\* An @if evaluated on self.scope itself instead of a clone of it.
CallIfNoClone ==
    /\ InLoop
    /\ CurStmt.kind = "if"
    /\ LET e == IfEval(CurStmt, fn_scope) IN
       IF ~e.ok
       THEN ReturnFromCall(Err(e.msg, e.pos), <<Reach(CurSpan, "if")>>)
       ELSE /\ call_stack' = Append(call_stack, Frame(e.stmts, CurSpan))
            /\ call_log' = Append(call_log, Reach(CurSpan, "if"))
            /\ call_ret' = call_ret
    /\ call_tmp' = IfEvalScope(CurStmt, fn_scope)
    /\ fn_scope' = IfEvalScope(CurStmt, fn_scope)
    /\ UNCHANGED <<fn_body, notCallVars>>

\* function.rs 120-124: i.eval(&mut self.scope.clone(), ..)? and the
\* recursive self.call on the statements it yields.
CallIf ==
    /\ InLoop
    /\ CurStmt.kind = "if"
    /\ LET e == IfEval(CurStmt, fn_scope) IN
       IF ~e.ok
       THEN ReturnFromCall(Err(e.msg, e.pos), <<Reach(CurSpan, "if")>>)
       ELSE /\ call_stack' = Append(call_stack, Frame(e.stmts, CurSpan))
            /\ call_log' = Append(call_log, Reach(CurSpan, "if"))
            /\ call_ret' = call_ret
    /\ call_tmp' = IfEvalScope(CurStmt, fn_scope)
    /\ UNCHANGED <<fn_body, fn_scope, notCallVars>>

\* function.rs 121-126: if let Ok(v) = self.call(..) { return Ok(v); }
\* An Ok is returned on; an Err is dropped and the loop goes on.
CallIfLet ==
    /\ call_stack # <<>>
    /\ call_ret # NoRet
    /\ IF call_ret.ok
       THEN /\ call_stack' = Front(call_stack)
            /\ call_log' = Append(call_log, Exit(CurFrame.path, call_ret))
            /\ call_ret' = call_ret
       ELSE /\ call_stack' = [call_stack EXCEPT ![Len(call_stack)].idx = @ + 1]
            /\ call_ret' = NoRet
            /\ call_log' = call_log
    /\ UNCHANGED <<fn_body, fn_scope, call_tmp, notCallVars>>

\* A loop that passes over the statements it does not know.
CallOtherSkip ==
    /\ InLoop
    /\ CurStmt.kind \notin {"return", "for", "if"}
    /\ call_stack' = [call_stack EXCEPT ![Len(call_stack)].idx = @ + 1]
    /\ call_log' = Append(call_log, Reach(CurSpan, CurStmt.kind))
    /\ UNCHANGED <<call_ret, fn_body, fn_scope, call_tmp, notCallVars>>

\* function.rs 128: _ => return Err("This at-rule is not allowed here.")
CallOther ==
    /\ InLoop
    /\ CurStmt.kind \notin {"return", "for", "if"}
    /\ ReturnFromCall(NotAllowedResult(CurSpan), <<Reach(CurSpan, CurStmt.kind)>>)
    /\ UNCHANGED <<fn_body, fn_scope, call_tmp, notCallVars>>

\* function.rs 131: Err("Function finished without @return.", self.pos)
CallFinish ==
    /\ call_stack # <<>>
    /\ call_ret = NoRet
    /\ CurFrame.idx > Len(CurFrame.stmts)
    /\ ReturnFromCall(NoReturnResult, <<>>)
    /\ UNCHANGED <<fn_body, fn_scope, call_tmp, notCallVars>>

\* The call is over: the result of the outermost invocation is in call_ret.
CallDone == call_stack = <<>> /\ call_ret # NoRet

\* Inputs of SpecCall. $x is bound in the function's scope, $u is not.
FnScope == insert_var(EmptyScope, "x", V("7"))
Returns == {Stmt("return", Lit("1")), Stmt("return", Lit("2")),
            Stmt("return", Var("u"))}
OtherStmts == {Stmt("style", Lit("red")), Stmt("comment", Lit("c")),
               Stmt("ruleset", Lit("a")), Stmt("unknown", Lit("media"))}
BranchToks == {<<>>,
               <<Stmt("return", Var("x"))>>,
               <<Stmt("return", Var("u"))>>,
               <<Stmt("style", Lit("red"))>>,
               <<Stmt("style", Var("u"))>>,
               <<Stmt("comment", Lit("c")), Stmt("return", Lit("3"))>>}
FnIfs == {IfStmt(<<Branch(c, b)>>, e) :
             c \in {Lit("true"), Lit("false"), Var("u")},
             b \in BranchToks,
             e \in {<<>>, <<Stmt("return", Lit("4"))>>}}
FnStmts == Returns \cup OtherStmts \cup {Stmt("for", Lit("i"))} \cup FnIfs

IdleCall ==
    /\ fn_body = <<>>
    /\ fn_scope = EmptyScope
    /\ call_stack = <<>>
    /\ call_ret = NoRet
    /\ call_log = <<>>
    /\ call_tmp = EmptyScope

InitFnCall ==
    /\ \E k \in 0..MaxBody : \E b \in [1..k -> FnStmts] : fn_body = b
    /\ fn_scope = FnScope
    /\ call_stack = <<Frame(fn_body, <<>>)>>
    /\ call_ret = NoRet
    /\ call_log = <<>>
    /\ call_tmp = fn_scope

\* ---- Claims about Function::call ----
IsReach(k) == call_log[k].ev = "reach"
IsExit(k)  == call_log[k].ev = "exit"
LogIdx == 1..Len(call_log)
ErrorsOfBranch == {MsgUndefined, MsgNotAllowed}

\* C2: when the statements of the selected branch of an @if raise an error
\* (an @return whose expression fails, a statement not allowed in a
\* function), the call returns that error and evaluates no statement after
\* the @if.
C2_FailFastInBranch ==
    CallDone =>
        \A k \in LogIdx :
            (/\ IsExit(k)
             /\ Len(call_log[k].path) = 1
             /\ ~call_log[k].res.ok
             /\ call_log[k].res.msg \in ErrorsOfBranch)
            => /\ call_ret = call_log[k].res
               /\ \A j \in LogIdx : j > k => ~IsReach(j)

\* C4: the call ends with the value of the first @return it reaches, in the
\* body or in the selected branch of an @if, and no statement is evaluated
\* after that @return.
C4_FirstReturnEnds ==
    CallDone =>
        \A k \in LogIdx :
            (IsReach(k) /\ call_log[k].kind = "return")
            => /\ \A j \in LogIdx : j > k => ~IsReach(j)
               /\ call_log[k + 1].res.ok => call_ret = call_log[k + 1].res

Reached(span) == \E k \in LogIdx : IsReach(k) /\ call_log[k].path = span
NoReturnReached == \A k \in LogIdx : ~(IsReach(k) /\ call_log[k].kind = "return")
\* The loop of the outermost invocation went through every statement of the
\* body: each was reached, and each is an @if that evaluated.
RanThroughBody ==
    \A i \in 1..Len(fn_body) :
        /\ Reached(<<i>>)
        /\ fn_body[i].kind = "if"
        /\ IfEval(fn_body[i], fn_scope).ok

\* C5: a call that runs through every statement of the body without
\* reaching an @return fails with "Function finished without @return." at
\* the span of the function's definition, and yields no value.
C5_NoReturnIsError ==
    (CallDone /\ RanThroughBody /\ NoReturnReached) =>
        /\ ~call_ret.ok
        /\ call_ret.val = NoValue
        /\ call_ret.msg = MsgNoReturn
        /\ call_ret.pos = FnPos

\* Witness of C5: a body of two @ifs, the first with a false condition and
\* no @else, is run through without an @return.
C5_Witness ==
    /\ CallDone
    /\ Len(fn_body) = 2
    /\ fn_body[1] = IfStmt(<<Branch(Lit("false"), <<>>)>>, <<>>)
    /\ RanThroughBody
    /\ NoReturnReached
    /\ call_ret = Err(MsgNoReturn, FnPos)

OtherKinds == {"style", "ruleset", "comment", "unknown"}

\* C6: an invocation of Function::call that reaches a statement that is
\* not an @return, @if or @for returns "This at-rule is not allowed here."
\* at that statement; when the statement is one of the function's body the
\* call fails with that error and yields no value.
C6_OtherStatementIsError ==
    \A k \in LogIdx :
        (IsReach(k) /\ call_log[k].kind \in OtherKinds)
        => /\ k < Len(call_log)
           /\ call_log[k + 1] = Exit(Front(call_log[k].path),
                                     Err(MsgNotAllowed, call_log[k].path))
           /\ Len(call_log[k].path) = 1 =>
                 /\ CallDone
                 /\ call_ret = Err(MsgNotAllowed, call_log[k].path)
                 /\ call_ret.val = NoValue

\* Witness of C6: the body's second statement is a comment, reached after an
\* @if that returned nothing; the call failed at it.
C6_Witness ==
    /\ CallDone
    /\ Len(fn_body) = 2
    /\ fn_body[1].kind = "if"
    /\ fn_body[2] = Stmt("comment", Lit("c"))
    /\ Reached(<<2>>)
    /\ call_ret = Err(MsgNotAllowed, <<2>>)

---------------------------------------------------------------------------
\* Function::args

NoDefault == [k |-> "none", v |-> ""]
FuncArg(name, default, is_variadic) ==
    [name |-> name, default |-> default, is_variadic |-> is_variadic]
NoCallArgs == [pos |-> <<>>, named |-> [n \in {} |-> Lit("")]]

FaRunning == [st |-> "running", msg |-> ""]
FaOk      == [st |-> "ok", msg |-> ""]
FaErr(m)  == [st |-> "err", msg |-> m]
MsgMissing(name) == "Missing argument $" \o name \o "."

\* CallArgs::get_positional, get_named: Option<SassResult<Value>>, the
\* argument's tokens evaluated in the given scope.
None == [some |-> FALSE, res |-> Err("none", NoPos)]
Some(r) == [some |-> TRUE, res |-> r]
get_positional(args, idx, scope) ==
    IF idx <= Len(args.pos) THEN Some(ValueFromTokens(args.pos[idx], scope))
    ELSE None
get_named(args, name, scope) ==
    IF name \in DOMAIN args.named
    THEN Some(ValueFromTokens(args.named[name], scope))
    ELSE None
\* CallArgs::get_variadic: the positional arguments not yet taken, evaluated
\* in order into an ArgList.
RECURSIVE EvalAll(_, _, _)
EvalAll(es, scope, acc) ==
    IF es = <<>> THEN Ok(ArgListV(acc))
    ELSE LET r == ValueFromTokens(Head(es), scope) IN
         IF ~r.ok THEN r ELSE EvalAll(Tail(es), scope, Append(acc, r.val.t))
get_variadic(args, idx, scope) ==
    EvalAll(SubSeq(args.pos, idx, Len(args.pos)), scope, <<>>)

FaArg == fa_formals[fa_idx]
FaInLoop == fa_res = FaRunning /\ fa_idx <= Len(fa_formals)
Bound(idx, src, r) == [idx |-> idx, src |-> src, res |-> r]

\* function.rs 71 / 79 / 99: `v?` and self.scope.insert_var(&arg.name, val)?
FaBind(src, r, next) ==
    /\ fa_log' = Append(fa_log, Bound(fa_idx, src, r))
    /\ IF r.ok
       THEN /\ fa_scope' = insert_var(fa_scope, FaArg.name, r.val)
            /\ fa_idx' = next
            /\ fa_res' = fa_res
       ELSE /\ fa_res' = FaErr(r.msg)
            /\ UNCHANGED <<fa_scope, fa_idx>>
    /\ UNCHANGED <<fa_formals, fa_call, fa_site, notArgsVars>>

\* function.rs 70-80: a variadic parameter takes the rest and ends the loop.
ArgsVariadic ==
    /\ FaInLoop
    /\ FaArg.is_variadic
    /\ FaBind("variadic", get_variadic(fa_call, fa_idx, fa_site),
              Len(fa_formals) + 1)

\* function.rs 81-82: Some(v) => v?
ArgsPositional ==
    /\ FaInLoop
    /\ ~FaArg.is_variadic
    /\ get_positional(fa_call, fa_idx, fa_site).some
    /\ FaBind("positional", get_positional(fa_call, fa_idx, fa_site).res,
              fa_idx + 1)

\* function.rs 83-84: None => match args.get_named(..) { Some(v) => v?
ArgsNamed ==
    /\ FaInLoop
    /\ ~FaArg.is_variadic
    /\ ~get_positional(fa_call, fa_idx, fa_site).some
    /\ get_named(fa_call, FaArg.name, fa_site).some
    /\ FaBind("named", get_named(fa_call, FaArg.name, fa_site).res, fa_idx + 1)

\* The default evaluated in the function's own scope.
DefaultValueOwnScope(default) == ValueFromTokens(default, fa_scope)
\* function.rs 86-90: the default's tokens are evaluated in `scope`.
DefaultValue(default) == ValueFromTokens(default, fa_site)

\* function.rs 85-90: None => match &arg.default { Some(v) => ..
ArgsDefault ==
    /\ FaInLoop
    /\ ~FaArg.is_variadic
    /\ ~get_positional(fa_call, fa_idx, fa_site).some
    /\ ~get_named(fa_call, FaArg.name, fa_site).some
    /\ FaArg.default # NoDefault
    /\ FaBind("default", DefaultValue(FaArg.default), fa_idx + 1)

\* A missing argument bound to null.
ArgsMissingNull ==
    /\ FaInLoop
    /\ ~FaArg.is_variadic
    /\ ~get_positional(fa_call, fa_idx, fa_site).some
    /\ ~get_named(fa_call, FaArg.name, fa_site).some
    /\ FaArg.default = NoDefault
    /\ FaBind("missing", Ok(V("null")), fa_idx + 1)

\* function.rs 91-95: None => return Err("Missing argument $name.")
ArgsMissing ==
    /\ FaInLoop
    /\ ~FaArg.is_variadic
    /\ ~get_positional(fa_call, fa_idx, fa_site).some
    /\ ~get_named(fa_call, FaArg.name, fa_site).some
    /\ FaArg.default = NoDefault
    /\ fa_res' = FaErr(MsgMissing(FaArg.name))
    /\ UNCHANGED <<fa_formals, fa_call, fa_site, fa_scope, fa_idx, fa_log,
                   notArgsVars>>

\* function.rs 101: Ok(self)
ArgsDone ==
    /\ fa_res = FaRunning
    /\ fa_idx > Len(fa_formals)
    /\ fa_res' = FaOk
    /\ UNCHANGED <<fa_formals, fa_call, fa_site, fa_scope, fa_idx, fa_log,
                   notArgsVars>>

\* Inputs of SpecArgs. $y is "site" at the call site and "captured" in the
\* function's scope; $u is bound in neither; only the last parameter may be
\* variadic.
ParamNames == <<"a", "b", "c", "d", "e">>
Defaults == {NoDefault, Lit("9"), Var("y"), Var("a")}
PosExprs == {Lit("1"), Var("y"), Var("u")}
NamedExprs == {Lit("5")}
SiteScope == insert_var(EmptyScope, "y", V("site"))
CapturedScope == insert_var(EmptyScope, "y", V("captured"))
Formals(k, ds, variadic) ==
    [i \in 1..k |-> FuncArg(ParamNames[i], ds[i], variadic /\ i = k)]
NamedArgs(names) == [n \in names |-> Lit("5")]

IdleArgs ==
    /\ fa_formals = <<>>
    /\ fa_call = NoCallArgs
    /\ fa_site = EmptyScope
    /\ fa_scope = EmptyScope
    /\ fa_idx = 0
    /\ fa_res = FaOk
    /\ fa_log = <<>>

InitFnArgs ==
    /\ \E k \in 0..MaxParams :
         \E ds \in [1..k -> Defaults], variadic \in BOOLEAN :
            /\ (k = 0 => ~variadic)
            /\ fa_formals = Formals(k, ds, variadic)
    /\ \E n \in 0..MaxPos :
         \E ps \in [1..n -> PosExprs],
            names \in SUBSET {ParamNames[i] : i \in 1..MaxParams} :
            fa_call = [pos |-> ps, named |-> NamedArgs(names)]
    /\ fa_site = SiteScope
    /\ fa_scope = CapturedScope
    /\ fa_idx = 1
    /\ fa_res = FaRunning
    /\ fa_log = <<>>

\* ---- Claims about Function::args ----
FaDone == fa_res # FaRunning
HasVariadic == \E i \in 1..Len(fa_formals) : fa_formals[i].is_variadic
\* The non-variadic parameters (only the last parameter may be variadic).
NonVariadic == {i \in 1..Len(fa_formals) : ~fa_formals[i].is_variadic}
\* Where the value of parameter i comes from, by the claim's order.
SourceOf(i) ==
    IF i <= Len(fa_call.pos) THEN "positional"
    ELSE IF fa_formals[i].name \in DOMAIN fa_call.named THEN "named"
    ELSE IF fa_formals[i].default # NoDefault THEN "default"
    ELSE "missing"
SourceTokens(i) ==
    CASE SourceOf(i) = "positional" -> fa_call.pos[i]
      [] SourceOf(i) = "named" -> fa_call.named[fa_formals[i].name]
      [] OTHER -> fa_formals[i].default
SourceValue(i) == ValueFromTokens(SourceTokens(i), fa_site)
\* The parameters that cannot be bound: nothing to bind, or a value that
\* fails to evaluate.
Unbindable ==
    {i \in NonVariadic : SourceOf(i) = "missing" \/ ~SourceValue(i).ok}
FirstUnbindable == CHOOSE i \in Unbindable : \A j \in Unbindable : i <= j

\* C8: Function::args binds the non-variadic parameters in declaration
\* order, each to its positional argument if one was passed, else to the
\* named argument, else to its default; a parameter with none of the three
\* makes the call fail with "Missing argument $<name>." and no function is
\* returned.
C8_ArgsBinding ==
    FaDone =>
        IF Unbindable # {}
        THEN LET f == FirstUnbindable IN
             /\ fa_res.st = "err"
             /\ fa_res.msg = (IF SourceOf(f) = "missing"
                              THEN "Missing argument $" \o fa_formals[f].name \o "."
                              ELSE SourceValue(f).msg)
             /\ \A k \in 1..Len(fa_log) :
                   fa_log[k].idx = k /\ k <= f /\ fa_log[k].src = SourceOf(k)
        ELSE /\ ~HasVariadic => fa_res.st = "ok"
             /\ \A i \in NonVariadic :
                   /\ fa_log[i].idx = i
                   /\ fa_log[i].src = SourceOf(i)
                   /\ fa_scope[fa_formals[i].name] = SourceValue(i).val

\* Witness of C8: two parameters, the first bound positionally and the second
\* by name although it has a default.
C8_Witness ==
    /\ fa_res = FaOk
    /\ Len(fa_formals) = 2
    /\ fa_formals[2].default = Lit("9")
    /\ Len(fa_call.pos) = 1
    /\ fa_call.pos[1] = Var("y")
    /\ "b" \in DOMAIN fa_call.named
    /\ fa_scope["a"] = V("site")
    /\ fa_scope["b"] = V("5")

\* C9: a call with more positional arguments than the function has
\* parameters, none of them variadic, fails.
C9_TooManyArgsFail ==
    (FaDone /\ ~HasVariadic /\ Len(fa_call.pos) > Len(fa_formals)) =>
        fa_res.st = "err"

\* C10: a default is evaluated, at the call, in the scope of the call site
\* and not in the function's captured scope, and only for a parameter that
\* got neither a positional nor a named argument.
C10_DefaultAtCallSite ==
    \A k \in 1..Len(fa_log) :
        LET i == fa_log[k].idx IN
        /\ fa_log[k].src = "default" =>
              /\ i > Len(fa_call.pos)
              /\ fa_formals[i].name \notin DOMAIN fa_call.named
              /\ fa_log[k].res = ValueFromTokens(fa_formals[i].default, fa_site)
              /\ fa_formals[i].default = Var("y") => fa_log[k].res.val = V("site")
        /\ (fa_log[k].src \in {"positional", "named"}
            /\ fa_formals[i].default = Var("y")
            /\ fa_log[k].res.ok /\ fa_res = FaOk) =>
              fa_scope[fa_formals[i].name] = fa_log[k].res.val

\* Witness of C10: the default $y of the second parameter was evaluated, to
\* the call site's value, the first parameter having taken a positional
\* argument instead of its own default.
C10_Witness ==
    /\ fa_res = FaOk
    /\ Len(fa_formals) = 2
    /\ fa_formals[1].default = Var("y")
    /\ fa_formals[2].default = Var("y")
    /\ fa_call.pos = <<Lit("1")>>
    /\ DOMAIN fa_call.named = {}
    /\ fa_log[2].src = "default"
    /\ fa_scope["a"] = V("1")
    /\ fa_scope["b"] = V("site")

---------------------------------------------------------------------------
\* If::from_tokens: the token stream is a sequence of one-character tokens.

Upper == <<"A", "B", "C", "D", "E", "F", "G", "H", "I", "J", "K", "L", "M",
           "N", "O", "P", "Q", "R", "S", "T", "U", "V", "W", "X", "Y", "Z">>
LowerCase == <<"a", "b", "c", "d", "e", "f", "g", "h", "i", "j", "k", "l", "m",
               "n", "o", "p", "q", "r", "s", "t", "u", "v", "w", "x", "y", "z">>
\* char::to_ascii_lowercase and str::to_ascii_lowercase
to_ascii_lowercase(c) ==
    IF \E i \in DOMAIN Upper : Upper[i] = c
    THEN LowerCase[CHOOSE i \in DOMAIN Upper : Upper[i] = c]
    ELSE c
LowerAll(str) == [i \in 1..Len(str) |-> to_ascii_lowercase(str[i])]

Whitespace == {" ", "\t", "\n"}
IdentChars ==
    {Upper[i] : i \in DOMAIN Upper} \cup {LowerCase[i] : i \in DOMAIN LowerCase}
        \cup {"-", "_"}

\* toks.next() with the token thrown away; at the end of the stream it is a
\* no-op.
Advance(toks) == IF toks = <<>> THEN <<>> ELSE Tail(toks)

\* devour_whitespace: the stream without its leading whitespace.
RECURSIVE devour_whitespace(_)
devour_whitespace(toks) ==
    IF toks # <<>> /\ Head(toks) \in Whitespace
    THEN devour_whitespace(Tail(toks))
    ELSE toks
\* devour_whitespace_or_comment, on streams without comments.
devour_whitespace_or_comment(toks) == devour_whitespace(toks)

\* read_until_open_curly_brace: the tokens before the first "{", which is
\* left in the stream.
RECURSIVE ReadOpen(_, _)
ReadOpen(toks, acc) ==
    IF toks = <<>> \/ Head(toks) = "{"
    THEN [read |-> acc, rest |-> toks]
    ELSE ReadOpen(Tail(toks), Append(acc, Head(toks)))
read_until_open_curly_brace(toks) == ReadOpen(toks, <<>>)

\* read_until_closing_curly_brace: the tokens before the "}" that closes the
\* block (nested blocks are read over); that "}" is left in the stream.
RECURSIVE ReadClose(_, _, _)
ReadClose(toks, acc, nesting) ==
    IF toks = <<>> \/ (Head(toks) = "}" /\ nesting = 0)
    THEN [read |-> acc, rest |-> toks]
    ELSE ReadClose(Tail(toks), Append(acc, Head(toks)),
                   CASE Head(toks) = "{" -> nesting + 1
                     [] Head(toks) = "}" -> nesting - 1
                     [] OTHER -> nesting)
read_until_closing_curly_brace(toks) == ReadClose(toks, <<>>, 0)

\* eat_ident, on streams without interpolation: the longest run of
\* identifier characters.
RECURSIVE EatIdent(_, _)
EatIdent(toks, acc) ==
    IF toks = <<>> \/ Head(toks) \notin IdentChars
    THEN [ident |-> acc, rest |-> toks]
    ELSE EatIdent(Tail(toks), Append(acc, Head(toks)))
eat_ident(toks) == EatIdent(toks, <<>>)

KwElse == <<"e", "l", "s", "e">>
MsgExpectedBrace == "expected \"{\"."

FtRunning == [st |-> "running", msg |-> ""]
FtOk == [st |-> "ok", msg |-> ""]
FtErr(m) == [st |-> "err", msg |-> m]
FtPanic == [st |-> "panic", msg |-> ""]

FtReturn(res) ==
    /\ ft_res' = res
    /\ ft_pc' = "done"
FtBreak(toks) ==
    /\ ft_toks' = toks
    /\ ft_pc' = "after"
    /\ UNCHANGED <<ft_branches, ft_else, ft_res>>

\* if_rule.rs 39-48: the condition and the body of the @if itself.
FromTokensInit ==
    /\ ft_pc = "init"
    /\ LET cond == read_until_open_curly_brace(devour_whitespace_or_comment(ft_toks))
           body == read_until_closing_curly_brace(
                       devour_whitespace_or_comment(Advance(cond.rest)))
       IN IF body.rest = <<>>
          THEN \* toks.next().unwrap() on an exhausted stream
               /\ FtReturn(FtPanic)
               /\ ft_toks' = <<>>
               /\ UNCHANGED ft_branches
          ELSE /\ ft_branches' = <<Branch(cond.read, Append(body.read, Head(body.rest)))>>
               /\ ft_toks' = devour_whitespace(Tail(body.rest))
               /\ ft_pc' = "loop"
               /\ UNCHANGED ft_res
    /\ UNCHANGED <<ft_else, ft_rest, notTokVars>>

\* 53, 97-99: the stream is exhausted.
LoopEnd ==
    /\ ft_pc = "loop"
    /\ ft_toks = <<>>
    /\ FtBreak(ft_toks)
    /\ UNCHANGED <<ft_rest, notTokVars>>

\* 54, 61-63: the next token is not "@".
LoopNotAt ==
    /\ ft_pc = "loop"
    /\ ft_toks # <<>>
    /\ Head(ft_toks) # "@"
    /\ FtBreak(ft_toks)
    /\ UNCHANGED <<ft_rest, notTokVars>>

\* 55: peek_forward(1).unwrap() when "@" is the last token.
LoopAtAlone ==
    /\ ft_pc = "loop"
    /\ ft_toks = <<"@">>
    /\ FtReturn(FtPanic)
    /\ UNCHANGED <<ft_toks, ft_branches, ft_else, ft_rest, notTokVars>>

\* 55-59: "@" followed by a character other than e or E.
LoopNotE ==
    /\ ft_pc = "loop"
    /\ Len(ft_toks) > 1
    /\ Head(ft_toks) = "@"
    /\ ft_toks[2] \notin {"e", "E"}
    /\ FtBreak(ft_toks)
    /\ UNCHANGED <<ft_rest, notTokVars>>

\* "@" followed by e or E: line 60 consumes the "@" and line 64 the
\* identifier after it.
AtE ==
    /\ ft_pc = "loop"
    /\ Len(ft_toks) > 1
    /\ Head(ft_toks) = "@"
    /\ ft_toks[2] \in {"e", "E"}
AtIdent == eat_ident(Tail(ft_toks))
IsElseIdent == LowerAll(AtIdent.ident) = KwElse
\* 66-67: after "else", the next token and the stream behind it.
AfterElse == devour_whitespace(AtIdent.rest)
ElseTok == Head(AfterElse)
AfterElseTok == devour_whitespace(Tail(AfterElse))

\* 64, 94-96: the identifier is not "else"; the loop ends with the "@" and
\* the identifier consumed.
LoopNotElse ==
    /\ AtE
    /\ ~IsElseIdent
    /\ FtBreak(AtIdent.rest)
    /\ UNCHANGED <<ft_rest, notTokVars>>

\* 67, 91-93: the stream ends after "@else".
LoopElseEnd ==
    /\ AtE
    /\ IsElseIdent
    /\ AfterElse = <<>>
    /\ FtBreak(AfterElse)
    /\ UNCHANGED <<ft_rest, notTokVars>>

\* 70: "@else i" at the end of the stream: toks.next().unwrap() in the guard.
LoopElseIfAlone ==
    /\ AtE
    /\ IsElseIdent
    /\ AfterElse # <<>>
    /\ to_ascii_lowercase(ElseTok) = "i"
    /\ AfterElseTok = <<>>
    /\ FtReturn(FtPanic)
    /\ ft_toks' = <<>>
    /\ UNCHANGED <<ft_branches, ft_else, ft_rest, notTokVars>>

\* 70-80: "@else if cond { body }" adds a branch and the loop goes on.
LoopElseIf ==
    /\ AtE
    /\ IsElseIdent
    /\ AfterElse # <<>>
    /\ to_ascii_lowercase(ElseTok) = "i"
    /\ AfterElseTok # <<>>
    /\ to_ascii_lowercase(Head(AfterElseTok)) = "f"
    /\ LET cond == read_until_open_curly_brace(Advance(Tail(AfterElseTok)))
           body == read_until_closing_curly_brace(
                       devour_whitespace(Advance(cond.rest)))
       IN /\ ft_branches' = Append(ft_branches, Branch(cond.read, body.read))
          /\ ft_toks' = devour_whitespace(Advance(body.rest))
    /\ UNCHANGED <<ft_else, ft_pc, ft_res, ft_rest, notTokVars>>

\* 81-85: "@else { body }" ends the chain.
LoopElseBody ==
    /\ AtE
    /\ IsElseIdent
    /\ AfterElse # <<>>
    /\ ElseTok = "{"
    /\ LET body == read_until_closing_curly_brace(AfterElseTok)
       IN /\ ft_else' = body.read
          /\ ft_toks' = Advance(body.rest)
    /\ ft_pc' = "after"
    /\ UNCHANGED <<ft_branches, ft_res, ft_rest, notTokVars>>

\* 86-88: "@else" followed by anything else (an "i" without "f" included,
\* the guard having consumed the token after the "i").
LoopElseErr ==
    /\ AtE
    /\ IsElseIdent
    /\ AfterElse # <<>>
    /\ ElseTok # "{"
    /\ to_ascii_lowercase(ElseTok) = "i" =>
          /\ AfterElseTok # <<>>
          /\ to_ascii_lowercase(Head(AfterElseTok)) # "f"
    /\ FtReturn(FtErr(MsgExpectedBrace))
    /\ ft_toks' = IF to_ascii_lowercase(ElseTok) = "i"
                  THEN Tail(AfterElseTok) ELSE AfterElseTok
    /\ UNCHANGED <<ft_branches, ft_else, ft_rest, notTokVars>>

\* 100-102: the trailing whitespace is consumed and the If returned.
FromTokensFinish ==
    /\ ft_pc = "after"
    /\ ft_toks' = devour_whitespace(ft_toks)
    /\ FtReturn(FtOk)
    /\ UNCHANGED <<ft_branches, ft_else, ft_rest, notTokVars>>

\* Inputs: what follows "@if" in the stream.
InitPieces ==
    {<<" ", "c", "{", "b", "}">>,
     <<"c", " ", "{", " ", "p", "{", "q", "}", "}", "\n">>}
\* A stream that ends inside the body of the @if.
Truncated == <<" ", "c", "{", "b">>
ElseIfPieces ==
    {<<"@", "e", "l", "s", "e", " ", "i", "f", " ", "d", "{", "e", "}">>,
     <<"@", "E", "l", "s", "e", " ", "I", "F", " ", "d", " ", "{", "}", " ">>}
ElsePieces ==
    {<<>>,
     <<"@", "e", "l", "s", "e", "{", "f", "}">>,
     <<"@", "e", "l", "s", "e", " ", "{", " ", "f", "}", " ">>}
\* The constructs after the chain; none starts with whitespace.
Rests ==
    {<<>>,
     <<"a", "{", "}">>,
     <<"}">>,
     <<"$", "x", ":", "1", ";">>,
     <<"@", "m", "e", "d", "i", "a", "{", "}">>,
     <<"@", "i", "f", " ", "c", "{", "}">>,
     <<"@", "e", "a", "c", "h", " ", "$", "x">>,
     <<"@", "e", "r", "r", "o", "r", " ", "m", ";">>,
     <<"@", "e", "x", "t", "e", "n", "d", " ", "a", ";">>,
     <<"@", "E", "a", "c", "h", " ", "$", "x">>,
     <<"@">>,
     <<"@", "e", "l", "s", "e">>,
     <<"@", "e", "l", "s", "e", " ", "i">>,
     <<"@", "e", "l", "s", "e", " ", "i", "x", "{", "}">>,
     <<"@", "e", "l", "s", "e", " ", "x", "{", "}">>}
RECURSIVE Concat(_)
Concat(ss) == IF ss = <<>> THEN <<>> ELSE Head(ss) \o Concat(Tail(ss))

IdleTokens ==
    /\ ft_toks = <<>>
    /\ ft_branches = <<>>
    /\ ft_else = <<>>
    /\ ft_pc = "done"
    /\ ft_res = FtRunning
    /\ ft_rest = <<>>
InitFromTokens ==
    /\ \/ \E first \in InitPieces : \E k \in 0..MaxElseIf :
          \E eifs \in [1..k -> ElseIfPieces] : \E els \in ElsePieces :
          \E rest \in Rests :
             /\ ft_toks = first \o Concat(eifs) \o els \o rest
             /\ ft_rest = rest
       \/ /\ ft_toks = Truncated
          /\ ft_rest = <<>>
    /\ ft_branches = <<>>
    /\ ft_else = <<>>
    /\ ft_pc = "init"
    /\ ft_res = FtRunning

\* ---- Claims about If::from_tokens ----
\* The construct is an @else clause (in any letter case).
IsElseClause(rest) ==
    /\ rest # <<>>
    /\ Head(rest) = "@"
    /\ LowerAll(eat_ident(Tail(rest)).ident) = KwElse

\* C3: when from_tokens returns and the construct after the chain is not an
\* @else, the stream still holds that whole construct, first token first.
C3_NonElseLeftInStream ==
    (ft_pc = "done" /\ ft_res = FtOk /\ ~IsElseClause(ft_rest)) =>
        ft_toks = ft_rest

---------------------------------------------------------------------------
\* StyleSheetParser::parse_toplevel and eat_rules, construct by construct.
\* The arms for @import, @include, @mixin, @function, @for, @error, @warn
\* and @debug are left out.

\* A construct of the input: whitespace ("ws"), "&" ("amp"), a comment, the
\* "selector {" that opens a rule set ("open"), the "}" that closes one
\* ("close"), a style declaration, a variable declaration ("var") or an
\* at-rule ("at", name being the at-rule's name).
Item(k, name, e) ==
    [k |-> k, name |-> name, expr |-> e, default |-> FALSE, global |-> FALSE,
     i |-> NoIf]
VarDecl(name, e, default, global) ==
    [Item("var", name, e) EXCEPT !.default = default, !.global = global]
IfItem(i) == [Item("at", "if", Lit("null")) EXCEPT !.i = i]
NoItem == Item("none", "", Lit("null"))

\* Stmt::RuleSet, Stmt::MultilineComment, Stmt::AtRule
RuleSet(selector, rules) ==
    [kind |-> "ruleset", expr |-> Lit(selector), branches |-> <<>>,
     else_ |-> <<>>, rules |-> rules]
MultilineComment(text) == Stmt("comment", Lit(text))
StmtAtRule(item) == Stmt(item.name, item.expr)

MsgAmp == "Base-level rules cannot contain the parent-selector-referencing character '&'."
MsgUnexpected == "unexpected toplevel token"
MsgTodoCharset == "not yet implemented: @charset as expr"

TlRunning == [st |-> "running", msg |-> ""]
TlOk == [st |-> "ok", msg |-> ""]
TlErr(m) == [st |-> "err", msg |-> m]
TlPanic(m) == [st |-> "panic", msg |-> m]
TlExit(m) == [st |-> "exit", msg |-> m]

\* One invocation of eat_rules: the selector it was entered for and stmts.
RulesFrame(selector) == [selector |-> selector, stmts |-> <<>>]

AtTopLevel == tl_res = TlRunning /\ tl_frames = <<>>
InRules == tl_res = TlRunning /\ tl_frames # <<>>
NextItem == Head(tl_input)
IsAt(name) == NextItem.k = "at" /\ NextItem.name = name
\* The next construct is read.
Read ==
    /\ tl_input' = Tail(tl_input)
    /\ tl_last' = NextItem
\* parse_toplevel or eat_rules returns early: the lists stay as they were.
TlReturn(res) ==
    /\ tl_res' = res
    /\ UNCHANGED <<tl_rules, tl_global, tl_local, tl_frames, tl_depth>>
PushStmts(stmts) ==
    tl_frames' = [tl_frames EXCEPT ![Len(tl_frames)].stmts = @ \o stmts]

\* ---- parse_toplevel (lib.rs 281-407) ----

\* 285-287: a selector or a style starts: eat_rules is entered with a copy
\* of the root scope.
TopEatRules ==
    /\ AtTopLevel /\ tl_input # <<>>
    /\ NextItem.k \in {"style", "open"}
    /\ tl_frames' = <<RulesFrame("")>>
    /\ tl_local' = tl_global
    /\ UNCHANGED <<tl_input, tl_rules, tl_global, tl_depth, tl_res, tl_last,
                   tl_src, notTopVars>>

\* 288-291
TopWhitespace ==
    /\ AtTopLevel /\ tl_input # <<>>
    /\ NextItem.k = "ws"
    /\ Read
    /\ UNCHANGED <<tl_rules, tl_global, tl_local, tl_frames, tl_depth, tl_res,
                   tl_src, notTopVars>>

\* A top-level variable declaration that does not look at the !default flag.
TopVariableNoDefault ==
    /\ AtTopLevel /\ tl_input # <<>>
    /\ NextItem.k = "var"
    /\ Read
    /\ LET v == ValueFromTokens(NextItem.expr, tl_global) IN
       IF ~v.ok
       THEN TlReturn(TlErr(v.msg))
       ELSE /\ tl_global' = insert_var(tl_global, NextItem.name, v.val)
            /\ UNCHANGED <<tl_rules, tl_local, tl_frames, tl_depth, tl_res>>
    /\ UNCHANGED <<tl_src, notTopVars>>

\* 292-317: a top-level variable declaration; the !global flag is not read.
TopVariable ==
    /\ AtTopLevel /\ tl_input # <<>>
    /\ NextItem.k = "var"
    /\ Read
    /\ LET v == ValueFromTokens(NextItem.expr, tl_global) IN
       IF ~v.ok
       THEN TlReturn(TlErr(v.msg))
       ELSE /\ tl_global' =
                  IF ~NextItem.default \/ ~get_var(tl_global, NextItem.name).ok
                  THEN insert_var(tl_global, NextItem.name, v.val)
                  ELSE tl_global
            /\ UNCHANGED <<tl_rules, tl_local, tl_frames, tl_depth, tl_res>>
    /\ UNCHANGED <<tl_src, notTopVars>>

\* 318-329
TopComment ==
    /\ AtTopLevel /\ tl_input # <<>>
    /\ NextItem.k = "comment"
    /\ Read
    /\ tl_rules' = Append(tl_rules, MultilineComment(NextItem.name))
    /\ UNCHANGED <<tl_global, tl_local, tl_frames, tl_depth, tl_res, tl_src, notTopVars>>

\* 378
TopCharset ==
    /\ AtTopLevel /\ tl_input # <<>>
    /\ IsAt("charset")
    /\ Read
    /\ UNCHANGED <<tl_rules, tl_global, tl_local, tl_frames, tl_depth, tl_res,
                   tl_src, notTopVars>>

\* 382-384
TopReturn ==
    /\ AtTopLevel /\ tl_input # <<>>
    /\ IsAt("return")
    /\ Read
    /\ TlReturn(TlErr(MsgNotAllowed))
    /\ UNCHANGED <<tl_src, notTopVars>>

\* 386
TopContent ==
    /\ AtTopLevel /\ tl_input # <<>>
    /\ IsAt("content")
    /\ Read
    /\ TlReturn(TlErr(MsgContent))
    /\ UNCHANGED <<tl_src, notTopVars>>

\* 387-389: the @if is evaluated in a new, empty scope.
TopIf ==
    /\ AtTopLevel /\ tl_input # <<>>
    /\ IsAt("if")
    /\ Read
    /\ LET r == IfEval(NextItem.i, EmptyScope) IN
       IF ~r.ok
       THEN TlReturn(TlErr(r.msg))
       ELSE /\ tl_rules' = tl_rules \o r.stmts
            /\ UNCHANGED <<tl_global, tl_local, tl_frames, tl_depth, tl_res>>
    /\ UNCHANGED <<tl_src, notTopVars>>

\* 390
TopUnknown ==
    /\ AtTopLevel /\ tl_input # <<>>
    /\ NextItem.k = "at"
    /\ NextItem.name \notin {"charset", "return", "content", "if"}
    /\ Read
    /\ tl_rules' = Append(tl_rules, StmtAtRule(NextItem))
    /\ UNCHANGED <<tl_global, tl_local, tl_frames, tl_depth, tl_res, tl_src, notTopVars>>

\* 395-399
TopAmp ==
    /\ AtTopLevel /\ tl_input # <<>>
    /\ NextItem.k = "amp"
    /\ TlReturn(TlErr(MsgAmp))
    /\ UNCHANGED <<tl_input, tl_last, tl_src, notTopVars>>

\* 400-403: any other token, here a "}": self.error ends the process.
TopUnexpected ==
    /\ AtTopLevel /\ tl_input # <<>>
    /\ NextItem.k = "close"
    /\ Read
    /\ TlReturn(TlExit(MsgUnexpected))
    /\ UNCHANGED <<tl_src, notTopVars>>

\* 283, 406: the input is exhausted.
TopFinish ==
    /\ AtTopLevel /\ tl_input = <<>>
    /\ TlReturn(TlOk)
    /\ UNCHANGED <<tl_input, tl_last, tl_src, notTopVars>>

\* ---- eat_rules (lib.rs 409-458) with eat_expr (461-612) ----

\* eat_expr 611: whitespace and "&" are tokens of the construct they stand
\* before.
RulesValueToken ==
    /\ InRules /\ tl_input # <<>>
    /\ NextItem.k \in {"ws", "amp"}
    /\ Read
    /\ UNCHANGED <<tl_rules, tl_global, tl_local, tl_frames, tl_depth, tl_res,
                   tl_src, notTopVars>>

\* 413: a style; its value is evaluated in the scope.
RulesStyle ==
    /\ InRules /\ tl_input # <<>>
    /\ NextItem.k = "style"
    /\ Read
    /\ LET v == ValueFromTokens(NextItem.expr, tl_local) IN
       IF ~v.ok
       THEN TlReturn(TlErr(v.msg))
       ELSE /\ PushStmts(<<Stmt("style", Lit(v.val.t))>>)
            /\ UNCHANGED <<tl_rules, tl_global, tl_local, tl_depth, tl_res>>
    /\ UNCHANGED <<tl_src, notTopVars>>

\* 416
RulesIf ==
    /\ InRules /\ tl_input # <<>>
    /\ IsAt("if")
    /\ Read
    /\ LET r == IfEval(NextItem.i, tl_local) IN
       IF ~r.ok
       THEN TlReturn(TlErr(r.msg))
       ELSE /\ PushStmts(r.stmts)
            /\ UNCHANGED <<tl_rules, tl_global, tl_local, tl_depth, tl_res>>
    /\ UNCHANGED <<tl_src, notTopVars>>

\* 417-419
RulesContent ==
    /\ InRules /\ tl_input # <<>>
    /\ IsAt("content")
    /\ Read
    /\ TlReturn(TlErr(MsgContent))
    /\ UNCHANGED <<tl_src, notTopVars>>

\* The mutant of RulesReturn: the at-rule falls into the arm that keeps it.
RulesReturnPush ==
    /\ InRules /\ tl_input # <<>>
    /\ IsAt("return")
    /\ Read
    /\ PushStmts(<<StmtAtRule(NextItem)>>)
    /\ UNCHANGED <<tl_rules, tl_global, tl_local, tl_depth, tl_res, tl_src, notTopVars>>

\* 420
RulesReturn ==
    /\ InRules /\ tl_input # <<>>
    /\ IsAt("return")
    /\ Read
    /\ TlReturn(TlErr(MsgNotAllowed))
    /\ UNCHANGED <<tl_src, notTopVars>>

\* eat_expr 588: @charset inside eat_rules is a todo!.
RulesCharset ==
    /\ InRules /\ tl_input # <<>>
    /\ IsAt("charset")
    /\ Read
    /\ TlReturn(TlPanic(MsgTodoCharset))
    /\ UNCHANGED <<tl_src, notTopVars>>

\* 421: every other at-rule is kept.
RulesUnknown ==
    /\ InRules /\ tl_input # <<>>
    /\ NextItem.k = "at"
    /\ NextItem.name \notin {"charset", "return", "content", "if"}
    /\ Read
    /\ PushStmts(<<StmtAtRule(NextItem)>>)
    /\ UNCHANGED <<tl_rules, tl_global, tl_local, tl_depth, tl_res, tl_src, notTopVars>>

\* 430-432: a nested rule set is entered.
RulesSelector ==
    /\ InRules /\ tl_input # <<>>
    /\ NextItem.k = "open"
    /\ Read
    /\ tl_depth' = tl_depth + 1
    /\ tl_frames' = Append(tl_frames, RulesFrame(NextItem.name))
    /\ UNCHANGED <<tl_rules, tl_global, tl_local, tl_res, tl_src, notTopVars>>

\* eat_expr 500-504 and 612: a "}" or the end of the input ends this
\* eat_rules. Its caller is the Selector arm of the enclosing eat_rules
\* (433-441), which itself returns when the depth is back to 0, or
\* parse_toplevel (285-287).
RulesEnd ==
    /\ InRules
    /\ tl_input # <<>> => NextItem.k = "close"
    /\ tl_input' = Advance(tl_input)
    /\ tl_last' = IF tl_input = <<>> THEN NoItem ELSE NextItem
    /\ LET done == Last(tl_frames)
           outer == Front(tl_frames)
       IN IF outer = <<>>
          THEN /\ tl_rules' = tl_rules \o done.stmts
               /\ tl_frames' = <<>>
               /\ UNCHANGED tl_depth
          ELSE LET stmts == Append(Last(outer).stmts,
                                   RuleSet(done.selector, done.stmts))
               IN /\ tl_depth' = tl_depth - 1
                  /\ IF tl_depth - 1 = 0
                     THEN /\ tl_rules' = tl_rules \o stmts
                          /\ tl_frames' = <<>>
                     ELSE /\ tl_frames' = [outer EXCEPT ![Len(outer)].stmts = stmts]
                          /\ UNCHANGED tl_rules
    /\ UNCHANGED <<tl_global, tl_local, tl_res, tl_src, notTopVars>>

\* eat_expr 526-551 and eat_rules 443-450: a variable declaration.
RulesVariable ==
    /\ InRules /\ tl_input # <<>>
    /\ NextItem.k = "var"
    /\ Read
    /\ LET v == ValueFromTokens(NextItem.expr, tl_local)
           name == NextItem.name
           global == IF NextItem.global
                     THEN insert_var(tl_global, name, v.val) ELSE tl_global
       IN IF ~v.ok
          THEN TlReturn(TlErr(v.msg))
          ELSE /\ IF ~NextItem.default \/ ~get_var(tl_local, name).ok
                  THEN /\ tl_local' = insert_var(tl_local, name, v.val)
                       /\ tl_global' = IF tl_depth = 0
                                       THEN insert_var(global, name, v.val)
                                       ELSE global
                  ELSE /\ tl_local' = tl_local
                       /\ tl_global' = global
               /\ UNCHANGED <<tl_rules, tl_frames, tl_depth, tl_res>>
    /\ UNCHANGED <<tl_src, notTopVars>>

\* 456
RulesComment ==
    /\ InRules /\ tl_input # <<>>
    /\ NextItem.k = "comment"
    /\ Read
    /\ PushStmts(<<MultilineComment(NextItem.name)>>)
    /\ UNCHANGED <<tl_rules, tl_global, tl_local, tl_depth, tl_res, tl_src, notTopVars>>

\* Inputs: stylesheets of up to MaxItems constructs.
StyleOf(e) == <<Stmt("style", e)>>
TopIfs ==
    {[branches |-> <<Branch(Lit("true"), StyleOf(Lit("1")))>>, else_ |-> <<>>],
     [branches |-> <<Branch(Var("x"), StyleOf(Var("x")))>>,
      else_ |-> StyleOf(Lit("2"))]}
Items ==
    {Item("ws", "", Lit("null")), Item("amp", "", Lit("null")),
     Item("comment", "c", Lit("null")),
     Item("open", "a", Lit("null")), Item("close", "", Lit("null")),
     Item("style", "p", Lit("1")), Item("style", "p", Var("x")),
     Item("at", "return", Lit("1")), Item("at", "content", Lit("null")),
     Item("at", "charset", Lit("null")), Item("at", "media", Lit("null"))}
        \cup {IfItem(i) : i \in TopIfs}
        \cup {VarDecl("x", Lit("1"), FALSE, FALSE),
              VarDecl("x", Lit("2"), TRUE, FALSE),
              VarDecl("x", Lit("3"), FALSE, TRUE),
              VarDecl("x", Lit("4"), TRUE, TRUE)}

IdleTop ==
    /\ tl_input = <<>>
    /\ tl_rules = <<>>
    /\ tl_global = EmptyScope
    /\ tl_local = EmptyScope
    /\ tl_frames = <<>>
    /\ tl_depth = 0
    /\ tl_res = TlOk
    /\ tl_last = NoItem
    /\ tl_src = <<>>
InitTopLevel ==
    /\ \E k \in 0..MaxItems : \E items \in [1..k -> Items] : tl_input = items
    /\ tl_src = tl_input
    /\ tl_rules = <<>>
    /\ tl_global = EmptyScope
    /\ tl_local = EmptyScope
    /\ tl_frames = <<>>
    /\ tl_depth = 0
    /\ tl_res = TlRunning
    /\ tl_last = NoItem

\* ---- Claims about parse_toplevel and eat_rules ----
\* A statement list holds, at any depth of rule sets, an at-rule of one of
\* the names.
RECURSIVE HasAtRule(_, _)
HasAtRule(stmts, names) ==
    \E n \in DOMAIN stmts :
        \/ stmts[n].kind \in names
        \/ stmts[n].kind = "ruleset" /\ HasAtRule(stmts[n].rules, names)
ReadAt(name) == tl_last.k = "at" /\ tl_last.name = name

Reading(k) ==
    /\ tl_res = TlRunning
    /\ tl_input # <<>>
    /\ NextItem.k = k
    /\ tl_input' = Tail(tl_input)
\* The scope a declaration at the current position looks its name up in.
ScopeHere(global, local) == IF tl_frames = <<>> THEN global ELSE local
DeclValue == ValueFromTokens(NextItem.expr, ScopeHere(tl_global, tl_local))

\* C14: a declaration flagged !default changes neither the root scope nor
\* the local scope image when its name is bound already, and binds the name
\* otherwise; at top level and in rule sets, with or without !global.
C14_DefaultIsNoOp ==
    [][(Reading("var") /\ NextItem.default) =>
        IF get_var(ScopeHere(tl_global, tl_local), NextItem.name).ok
        THEN tl_global' = tl_global /\ tl_local' = tl_local
        ELSE get_var(ScopeHere(tl_global', tl_local'), NextItem.name)
                = DeclValue]_vars

Decl1 == VarDecl("x", Lit("1"), FALSE, FALSE)
Decl2Default == VarDecl("x", Lit("2"), TRUE, FALSE)
RootX == get_var(tl_global, "x")

\* C15 as stated: `$x: 1; $x: 2 !default;` at top level leaves $x equal to
\* 1, and the same two declarations in reversed order leave $x equal to 2.
C15_DefaultOrdering ==
    tl_res = TlOk =>
        /\ tl_src = <<Decl1, Decl2Default>> => RootX = Ok(V("1"))
        /\ tl_src = <<Decl2Default, Decl1>> => RootX = Ok(V("2"))

\* C15 amended: `$x: 1; $x: 2 !default;` at top level leaves $x equal to 1,
\* and the same two declarations in reversed order leave $x equal to 1 as
\* well, the plain declaration being the last write.
C15_DefaultOrderingLastWrite ==
    tl_res = TlOk =>
        /\ tl_src = <<Decl1, Decl2Default>> => RootX = Ok(V("1"))
        /\ tl_src = <<Decl2Default, Decl1>> => RootX = Ok(V("1"))

\* Witness of C15: the two declarations were compiled with the !default one
\* last, and $x is 1.
C15_Witness ==
    /\ tl_res = TlOk
    /\ tl_src = <<Decl1, Decl2Default>>
    /\ tl_last = Decl2Default
    /\ RootX = Ok(V("1"))

\* C16: a declaration flagged !global inside a rule set binds the name in
\* the root scope to its value and leaves the local scope image as it was.
C16_GlobalBypassesLocal ==
    [][(Reading("var") /\ tl_depth > 0 /\ NextItem.global) =>
        /\ get_var(tl_global', NextItem.name) = DeclValue
        /\ tl_local' = tl_local]_vars

\* C17: reading @charset, at top level or in a rule set, adds no statement,
\* changes no scope, and leaves the parse running on the next construct.
C17_CharsetDiscarded ==
    [][(Reading("at") /\ NextItem.name = "charset") =>
        /\ tl_res' = TlRunning
        /\ tl_rules' = tl_rules
        /\ tl_frames' = tl_frames
        /\ tl_global' = tl_global
        /\ tl_local' = tl_local]_vars

---------------------------------------------------------------------------
\* A function from its declaration through a sequence of calls:
\* Function::decl_from_tokens stores the definition; a call takes a copy of
\* the stored Function, binds the arguments on it with Function::args
\* (which takes self by value and the caller's scope by shared reference),
\* and evaluates Function::call on the result.

NoFunction == [scope |-> EmptyScope, args |-> <<>>, body |-> <<>>]
\* eat_stmts: the statements of a body; a variable declaration at the body's
\* level is a write to the scope handed in.
eat_stmts(toks, scope) == ruleset_eval(toks, scope, <<>>)

\* Inputs. $y is "site" for the caller and $a is not bound there; a body may
\* declare variables at its own level and inside an @if branch.
DeclFormals ==
    {<<>>,
     <<FuncArg("a", NoDefault, FALSE)>>,
     <<FuncArg("a", Lit("9"), FALSE), FuncArg("b", Var("y"), FALSE)>>,
     <<FuncArg("a", NoDefault, FALSE), FuncArg("b", NoDefault, TRUE)>>}
DeclStmts ==
    {VarStmt("y", Lit("parsed")),
     Stmt("return", Var("y")),
     Stmt("return", Var("a")),
     Stmt("style", Lit("red")),
     Stmt("for", Lit("i")),
     IfStmt(<<Branch(Lit("true"), <<VarStmt("y", Lit("branch")),
                                     Stmt("return", Var("u"))>>)>>, <<>>),
     IfStmt(<<Branch(Var("a"), <<VarStmt("a", Lit("branch"))>>)>>,
            <<Stmt("return", Var("y"))>>)}
SessCalls ==
    {NoCallArgs,
     [pos |-> <<Lit("1")>>, named |-> [n \in {} |-> Lit("")]],
     [pos |-> <<Var("y"), Lit("2")>>, named |-> [n \in {} |-> Lit("")]],
     [pos |-> <<>>, named |-> [n \in {"a"} |-> Lit("false")]]}

\* function.rs 42-61: the body is parsed with scope.clone(); the Function
\* keeps scope itself.
DeclFromTokens ==
    /\ ss_phase = "decl"
    /\ \E formals \in DeclFormals : \E k \in 0..MaxBody :
       \E toks \in [1..k -> DeclStmts] :
          LET body == eat_stmts(toks, ss_caller) IN
          /\ ss_parse' = ruleset_scope(toks, ss_caller)
          /\ IF body.ok
             THEN /\ ss_def' = [scope |-> ss_caller, args |-> formals,
                                 body |-> body.stmts]
                  /\ ss_phase' = "idle"
             ELSE /\ ss_def' = ss_def
                  /\ ss_phase' = "stop"
    /\ UNCHANGED <<ss_caller, ss_calls, ss_prev, argsVars, callVars, notFnVars>>

\* A call starts: Function::args (function.rs 63-68) is invoked on a copy
\* of the stored Function with the caller's scope.
BeginCall ==
    /\ ss_phase = "idle"
    /\ ss_calls < MaxCalls
    /\ \E args \in SessCalls : fa_call' = args
    /\ fa_formals' = ss_def.args
    /\ fa_scope' = ss_def.scope
    /\ fa_site' = ss_caller
    /\ fa_idx' = 1
    /\ fa_res' = FaRunning
    /\ fa_log' = <<>>
    /\ ss_phase' = "args"
    /\ UNCHANGED <<ss_def, ss_caller, ss_calls, ss_parse, ss_prev, callVars,
                   notFnVars>>

\* Function::args returned Ok(self): Function::call (function.rs 108) is
\* invoked on it with its body.
EnterCall ==
    /\ ss_phase = "args"
    /\ fa_res = FaOk
    /\ fn_body' = ss_def.body
    /\ fn_scope' = fa_scope
    /\ call_stack' = <<Frame(ss_def.body, <<>>)>>
    /\ call_ret' = NoRet
    /\ call_log' = <<>>
    /\ call_tmp' = fa_scope
    /\ ss_phase' = "call"
    /\ UNCHANGED <<ss_def, ss_caller, ss_calls, ss_parse, ss_prev, argsVars,
                   notFnVars>>

\* The call is over: Function::args failed, or Function::call returned; the
\* copy is dropped. A panic (todo!) ends the process.
EndCall ==
    /\ \/ ss_phase = "args" /\ fa_res.st = "err"
       \/ ss_phase = "call" /\ CallDone
    /\ ss_prev' = IF ss_phase = "args" THEN fa_scope ELSE fn_scope
    /\ ss_calls' = ss_calls + 1
    /\ ss_phase' = IF ss_phase = "call" /\ call_ret = Panic(MsgTodoFor)
                   THEN "stop" ELSE "idle"
    /\ UNCHANGED <<ss_def, ss_caller, ss_parse, argsVars, callVars, notFnVars>>

IdleSession ==
    /\ ss_def = NoFunction
    /\ ss_caller = EmptyScope
    /\ ss_phase = "stop"
    /\ ss_calls = 0
    /\ ss_parse = EmptyScope
    /\ ss_prev = EmptyScope
InitSession ==
    /\ ss_def = NoFunction
    /\ ss_caller = SiteScope
    /\ ss_phase = "decl"
    /\ ss_calls = 0
    /\ ss_parse = SiteScope
    /\ ss_prev = SiteScope

---------------------------------------------------------------------------
\* SassMap (value/map.rs): a Vec of (key, value) pairs.

\* A string value with its quoted flag. The == of Value (PartialEq) is
\* equality of the records: "a" and a are different keys for it.
Str(text, quoted) == [t |-> text, items |-> <<>>, quoted |-> quoted]
\* Value::equals, the == of Sass: quoted and unquoted strings with equal
\* contents are equal.
equals(a, b) == a.t = b.t /\ a.items = b.items

Entry(k, v) == [k |-> k, v |-> v]
\* map.rs 15-17
SassMapNew == <<>>
NoEntry == [some |-> FALSE, val |-> NoValue]
SomeValue(v) == [some |-> TRUE, val |-> v]

Matches(map, key) == {i \in DOMAIN map : map[i].k = key}
FirstOf(idxs) == CHOOSE i \in idxs : \A j \in idxs : i <= j

\* An insert that never looks for the key.
InsertPush(map, key, value) ==
    [map |-> Append(map, Entry(key, value)), ret |-> FALSE]
\* map.rs 64-73: insert; ret is the bool returned.
Insert(map, key, value) ==
    IF Matches(map, key) # {}
    THEN [map |-> [map EXCEPT ![FirstOf(Matches(map, key))].v = value],
          ret |-> TRUE]
    ELSE [map |-> Append(map, Entry(key, value)), ret |-> FALSE]
\* map.rs 29-31: retain the entries whose key differs.
RetainOthers(map, key) == SelectSeq(map, LAMBDA e : e.k # key)
\* map.rs 33-37: insert every entry of other, in order.
RECURSIVE Merge(_, _)
Merge(map, other) ==
    IF other = <<>> THEN map
    ELSE Merge(Insert(map, Head(other).k, Head(other).v).map, Tail(other))
\* map.rs 19-26: the value of the first entry whose key equals key.
Get(map, key) ==
    LET found == {i \in DOMAIN map : equals(map[i].k, key)} IN
    IF found = {} THEN NoEntry ELSE SomeValue(map[FirstOf(found)].v)

\* History: the insertion time of the keys present.
BornInsert(born, key, now) ==
    IF key \in DOMAIN born THEN born
    ELSE [k \in DOMAIN born \cup {key} |-> IF k = key THEN now ELSE born[k]]
RECURSIVE BornMerge(_, _, _)
BornMerge(born, other, now) ==
    IF other = <<>> THEN born
    ELSE BornMerge(BornInsert(born, Head(other).k, now + 1), Tail(other), now + 1)

MapOp(op, key, value, ret, got) ==
    [op |-> op, key |-> key, value |-> value, ret |-> ret, got |-> got]
NoOp == MapOp("new", Str("", FALSE), NoValue, FALSE, NoEntry)

\* Inputs
MapKeys == {Str("a", FALSE), Str("a", TRUE), Str("b", FALSE)}
MapValues == {V("1"), V("2")}
\* The maps handed to merge: themselves built by inserts, so without
\* repeated keys.
OtherMaps ==
    {<<>>} \cup {<<Entry(k, V("m"))>> : k \in MapKeys}
        \cup {<<Entry(p[1], V("m")), Entry(p[2], V("n"))>> :
                 p \in {q \in MapKeys \X MapKeys : q[1] # q[2]}}

MapInsert ==
    /\ sm_ops < MaxOps
    /\ \E key \in MapKeys, value \in MapValues :
          LET r == Insert(sm_map, key, value) IN
          /\ sm_map' = r.map
          /\ sm_last' = MapOp("insert", key, value, r.ret, NoEntry)
          /\ sm_born' = BornInsert(sm_born, key, sm_clock + 1)
    /\ sm_clock' = sm_clock + 1
    /\ sm_prev' = sm_map
    /\ sm_ops' = sm_ops + 1
    /\ UNCHANGED notMapVars

MapRemove ==
    /\ sm_ops < MaxOps
    /\ \E key \in MapKeys :
          /\ sm_map' = RetainOthers(sm_map, key)
          /\ sm_last' = MapOp("remove", key, NoValue, FALSE, NoEntry)
          /\ sm_born' = [k \in DOMAIN sm_born \ {key} |-> sm_born[k]]
    /\ sm_prev' = sm_map
    /\ sm_ops' = sm_ops + 1
    /\ UNCHANGED <<sm_clock, notMapVars>>

MapMerge ==
    /\ sm_ops < MaxOps
    /\ \E other \in OtherMaps :
          /\ sm_map' = Merge(sm_map, other)
          /\ sm_born' = BornMerge(sm_born, other, sm_clock)
          /\ sm_clock' = sm_clock + Len(other)
    /\ sm_last' = MapOp("merge", Str("", FALSE), NoValue, FALSE, NoEntry)
    /\ sm_prev' = sm_map
    /\ sm_ops' = sm_ops + 1
    /\ UNCHANGED notMapVars

\* get takes self by value: the caller's map is a copy and stays as it is.
MapGet ==
    /\ sm_ops < MaxOps
    /\ \E key \in MapKeys :
          sm_last' = MapOp("get", key, NoValue, FALSE, Get(sm_map, key))
    /\ sm_prev' = sm_map
    /\ sm_ops' = sm_ops + 1
    /\ UNCHANGED <<sm_map, sm_born, sm_clock, notMapVars>>

IdleMap ==
    /\ sm_map = SassMapNew
    /\ sm_ops = MaxOps
    /\ sm_last = NoOp
    /\ sm_prev = SassMapNew
    /\ sm_born = [k \in {} |-> 0]
    /\ sm_clock = 0
InitSassMap ==
    /\ sm_map = SassMapNew
    /\ sm_ops = 0
    /\ sm_last = NoOp
    /\ sm_prev = SassMapNew
    /\ sm_born = [k \in {} |-> 0]
    /\ sm_clock = 0

\* ---- Claims about SassMap ----
KeysOf(map) == {map[i].k : i \in DOMAIN map}

ValuesAt(map, key) == {map[i].v : i \in Matches(map, key)}

\* C21: a get returns Some(v) exactly when an insert of the same key into
\* the same map would return true, and v is then the value the map holds
\* for that key, the one inserted for it last.
C21_GetAgreesWithInsert ==
    sm_last.op = "get" =>
        /\ sm_last.got.some = Insert(sm_prev, sm_last.key, NoValue).ret
        /\ sm_last.got.some => ValuesAt(sm_prev, sm_last.key) = {sm_last.got.val}

---------------------------------------------------------------------------
\* UnknownAtRule::from_tokens (atrule/unknown.rs)

\* The scope of the at-rule: $x is bound, $u is not. A value's CSS string is
\* a sequence of characters.
UnkScope == insert_var(EmptyScope, "x", V("v"))
to_css_string(v) == <<v.t>>

\* The text of a run of one-character tokens.
RECURSIVE TextOf(_)
TextOf(toks) == IF toks = <<>> THEN "" ELSE Head(toks) \o TextOf(Tail(toks))

\* parse_interpolation: the expression up to the closing "}" is evaluated
\* in the scope; res is its value, rest the stream behind the "}".
parse_interpolation(toks, scope) ==
    LET e == read_until_closing_curly_brace(toks)
        expr == IF e.read # <<>> /\ Head(e.read) = "$"
                THEN Var(TextOf(Tail(e.read)))
                ELSE Lit(TextOf(e.read))
    IN [res |-> ValueFromTokens(expr, scope), rest |-> Advance(e.rest)]

\* str::trim
RECURSIVE TrimEnd(_)
TrimEnd(str) ==
    IF str # <<>> /\ Last(str) \in Whitespace THEN TrimEnd(Front(str)) ELSE str
Trim(str) == TrimEnd(devour_whitespace(str))

UnkInLoop == un_pc = "params" /\ un_toks # <<>>
UnkTok == Head(un_toks)
UnkReturn(res) ==
    /\ un_res' = res
    /\ un_pc' = "done"
UnkPush(chars, toks) ==
    /\ un_params' = un_params \o chars
    /\ un_toks' = toks
    /\ UNCHANGED <<un_body, un_super, un_pc, un_res, un_src, un_raw, notUnkVars>>

\* unknown.rs 31: "{" ends the params.
ParamsBrace ==
    /\ UnkInLoop
    /\ UnkTok = "{"
    /\ un_toks' = Tail(un_toks)
    /\ un_pc' = "body"
    /\ UNCHANGED <<un_params, un_body, un_super, un_res, un_src, un_raw,
                   notUnkVars>>

\* 29: the stream ended before any "{".
ParamsEnd ==
    /\ un_pc = "params"
    /\ un_toks = <<>>
    /\ un_pc' = "body"
    /\ UNCHANGED <<un_toks, un_params, un_body, un_super, un_res, un_src,
                   un_raw, notUnkVars>>

\* 33: toks.peek().unwrap() when "#" is the last token.
ParamsHashAlone ==
    /\ UnkInLoop
    /\ un_toks = <<"#">>
    /\ UnkReturn(FtPanic)
    /\ un_toks' = <<>>
    /\ UNCHANGED <<un_params, un_body, un_super, un_src, un_raw, notUnkVars>>

\* 33-37: "#{": the interpolation's CSS string is pushed.
ParamsInterpolation ==
    /\ UnkInLoop
    /\ UnkTok = "#"
    /\ Len(un_toks) > 1
    /\ un_toks[2] = "{"
    /\ LET i == parse_interpolation(Tail(Tail(un_toks)), UnkScope) IN
       IF ~i.res.ok
       THEN /\ UnkReturn(FtErr(i.res.msg))
            /\ un_toks' = i.rest
            /\ UNCHANGED <<un_params, un_body, un_super, un_src, un_raw,
                           notUnkVars>>
       ELSE UnkPush(to_css_string(i.res.val), i.rest)

\* 38-40 and 49: a "#" not followed by "{" is pushed by line 39, and again
\* by line 49 after the match.
ParamsHash ==
    /\ UnkInLoop
    /\ UnkTok = "#"
    /\ Len(un_toks) > 1
    /\ un_toks[2] # "{"
    /\ UnkPush(<<UnkTok, UnkTok>>, Tail(un_toks))

\* 42-46: a run of whitespace is pushed as one space.
ParamsWhitespace ==
    /\ UnkInLoop
    /\ UnkTok \in Whitespace
    /\ UnkPush(<<" ">>, devour_whitespace(Tail(un_toks)))

\* 47-49: any other character is pushed.
ParamsOther ==
    /\ UnkInLoop
    /\ UnkTok \notin Whitespace \cup {"{", "#"}
    /\ UnkPush(<<UnkTok>>, Tail(un_toks))

\* A loop over raw_body that leaves the styles in the body as well.
RECURSIVE SplitBodyKeepStyles(_, _, _)
SplitBodyKeepStyles(raw, rules, body) ==
    IF raw = <<>> THEN [rules |-> rules, body |-> body]
    ELSE IF Head(raw).kind = "style"
         THEN SplitBodyKeepStyles(Tail(raw), Append(rules, Head(raw)),
                                  Append(body, Head(raw)))
         ELSE SplitBodyKeepStyles(Tail(raw), rules, Append(body, Head(raw)))
\* 59-64: the loop over raw_body: styles go to rules, the rest to body.
RECURSIVE SplitBody(_, _, _)
SplitBody(raw, rules, body) ==
    IF raw = <<>> THEN [rules |-> rules, body |-> body]
    ELSE IF Head(raw).kind = "style"
         THEN SplitBody(Tail(raw), Append(rules, Head(raw)), body)
         ELSE SplitBody(Tail(raw), rules, Append(body, Head(raw)))

\* Inputs: the statements of the at-rule's block.
UnkBodyStmts ==
    {Stmt("style", Lit("1")), Stmt("style", Lit("2")), Stmt("style", Var("u")),
     Stmt("comment", Lit("c")), Stmt("ruleset", Lit("b")),
     Stmt("unknown", Lit("media"))}

\* 52-80: the body is parsed by eat_stmts, its styles are wrapped into a
\* rule set for super_selector that is put first, and the UnknownAtRule is
\* returned with the trimmed params.
FromTokensBody ==
    /\ un_pc = "body"
    /\ \E k \in 0..MaxBody : \E toks \in [1..k -> UnkBodyStmts] :
          LET raw_body == eat_stmts(toks, UnkScope) IN
          IF ~raw_body.ok
          THEN /\ UnkReturn(FtErr(raw_body.msg))
               /\ UNCHANGED <<un_params, un_body, un_raw>>
          ELSE LET split == SplitBody(raw_body.stmts, <<>>,
                                      <<RuleSet("", <<>>)>>)
               IN /\ un_raw' = raw_body.stmts
                  /\ un_body' = [split.body EXCEPT
                                    ![1] = RuleSet(un_super, split.rules)]
                  /\ un_params' = Trim(un_params)
                  /\ UnkReturn(FtOk)
    /\ UNCHANGED <<un_toks, un_super, un_src, notUnkVars>>

\* Inputs: the params as a sequence of pieces, then "{" or the end of the
\* stream. A "#" is not the piece before the "{".
ParamPieces ==
    {<<" ">>, <<"\t">>, <<"a">>, <<"#">>, <<"(">>,
     <<"#", "{", "$", "x", "}">>, <<"#", "{", "b", "}">>,
     <<"#", "{", "$", "u", "}">>}
IdleUnknown ==
    /\ un_toks = <<>>
    /\ un_params = <<>>
    /\ un_body = <<>>
    /\ un_super = ""
    /\ un_pc = "done"
    /\ un_res = FtRunning
    /\ un_src = <<>>
    /\ un_raw = <<>>
InitUnknown ==
    /\ \E k \in 0..MaxPieces : \E ps \in [1..k -> ParamPieces] :
       \E brace \in BOOLEAN :
          /\ brace /\ k > 0 => ps[k] # <<"#">>
          /\ un_toks = Concat(ps) \o (IF brace THEN <<"{">> ELSE <<>>)
    /\ un_src = un_toks
    /\ un_super \in {"", "a"}
    /\ un_params = <<>>
    /\ un_body = <<>>
    /\ un_pc = "params"
    /\ un_res = FtRunning
    /\ un_raw = <<>>

\* ---- Claims about UnknownAtRule::from_tokens ----
Styles(stmts) == SelectSeq(stmts, LAMBDA st : st.kind = "style")
NonStyles(stmts) == SelectSeq(stmts, LAMBDA st : st.kind # "style")
UnkReturned == un_pc = "done" /\ un_res = FtOk

\* C13: the body returned is one rule set for the super selector holding
\* exactly the styles of the parsed body in their order, followed by the
\* other statements of the parsed body in their order.
C13_BodyWrapsStyles ==
    UnkReturned =>
        /\ un_body # <<>>
        /\ un_body[1] = RuleSet(un_super, Styles(un_raw))
        /\ Tail(un_body) = NonStyles(un_raw)
        /\ Len(un_body[1].rules) + Len(un_body) - 1 = Len(un_raw)

\* Witness of C13: a style after another statement was moved into the rule
\* set of a non-empty super selector.
C13_Witness ==
    /\ UnkReturned
    /\ un_super = "a"
    /\ Len(un_raw) = 2
    /\ un_raw[1].kind = "comment"
    /\ un_raw[2].kind = "style"
    /\ Len(un_body) = 2
    /\ un_body[1].rules = <<un_raw[2]>>

\* The params the source text stands for: whitespace runs as one space,
\* each interpolation as the CSS string of its value, every other character
\* once.
RECURSIVE ParamsOf(_)
ParamsOf(text) ==
    IF text = <<>> \/ Head(text) = "{" THEN <<>>
    ELSE IF Head(text) \in Whitespace
    THEN <<" ">> \o ParamsOf(devour_whitespace(text))
    ELSE IF Head(text) = "#" /\ Len(text) > 1 /\ text[2] = "{"
    THEN LET i == parse_interpolation(Tail(Tail(text)), UnkScope) IN
         to_css_string(i.res.val) \o ParamsOf(i.rest)
    ELSE <<Head(text)>> \o ParamsOf(Tail(text))

\* C20: the params returned are the source text before the first "{" with
\* whitespace runs collapsed, interpolations replaced by their values, every
\* other character copied once, and the ends trimmed.
C20_ParamsOfSource ==
    UnkReturned => un_params = Trim(ParamsOf(un_src))

---------------------------------------------------------------------------
\* eat_expr (lib.rs 461-612) on a block of style declarations, token by
\* token, called in a loop as eat_rules and eat_stmts call it. The stream
\* holds declarations only: the arms for "{", "/", "@", "#" and for a
\* variable declaration are those of the construct-level model above.

Style(property, value) == [property |-> property, value |-> value]
Null == V("null")
BlockScope == insert_var(EmptyScope, "x", V("v"))

\* Style::parse_property: the identifier, and the ":" behind it if there is
\* one; rest is where the value starts.
parse_property(v) ==
    LET id == eat_ident(v)
        after == devour_whitespace(id.rest)
    IN [property |-> TextOf(id.ident),
        rest |-> IF after # <<>> /\ Head(after) = ":"
                 THEN devour_whitespace(Tail(after)) ELSE after]

\* Style::parse_value: the value the tokens stand for.
parse_value(v, scope) ==
    LET t == Trim(v) IN
    IF t = <<>> THEN Ok(Null)
    ELSE IF Head(t) = "$" THEN get_var(scope, TextOf(Tail(t)))
    ELSE Ok(V(TextOf(t)))

\* The tokens before the first ";" or "}", which is left in the stream.
RECURSIVE ReadValue(_, _)
ReadValue(toks, acc) ==
    IF toks = <<>> \/ Head(toks) \in {";", "}"}
    THEN [read |-> acc, rest |-> toks]
    ELSE ReadValue(Tail(toks), Append(acc, Head(toks)))

\* Style::from_tokens: the value runs up to ";" or "}"; a ";" is consumed
\* with the whitespace behind it, a "}" is left for the next eat_expr.
StyleFromTokens(toks, scope, property) ==
    LET r == ReadValue(toks, <<>>)
        v == parse_value(r.read, scope)
    IN [res |-> v,
        style |-> Style(property, IF v.ok THEN v.val ELSE Null),
        rest |-> IF r.rest # <<>> /\ Head(r.rest) = ";"
                 THEN devour_whitespace(Tail(r.rest)) ELSE r.rest]

ExprInLoop == ee_pc = "expr" /\ ee_toks # <<>>
ExprTok == Head(ee_toks)
\* The loop around eat_expr ends.
ExprReturn(res) ==
    /\ ee_res' = res
    /\ ee_pc' = "done"
    /\ UNCHANGED <<ee_stmts, ee_run, ee_alt, ee_first, ee_closed, notExprVars>>
\* eat_expr returns Some(Expr::Style), which the loop pushes (eat_rules
\* 413) before it calls eat_expr again.
ExprStyle(style) ==
    /\ ee_stmts' = Append(ee_stmts, style)
    /\ ee_values' = <<>>
    /\ UNCHANGED <<ee_pc, ee_res, ee_run, ee_alt, ee_first, ee_closed,
                   notExprVars>>
\* The style made of the tokens in values (lib.rs 497-499, 510-514).
ExprStyleOfValues(v) ==
    LET p == parse_property(v)
        value == parse_value(p.rest, BlockScope)
    IN IF ~value.ok
       THEN /\ ExprReturn(FtErr(value.msg))
            /\ UNCHANGED ee_values
       ELSE ExprStyle(Style(p.property, value.val))

\* 469-478: ":" followed by whitespace: the property is in values, the
\* value is read by Style::from_tokens.
ExprColonSpace ==
    /\ ExprInLoop
    /\ ExprTok = ":"
    /\ devour_whitespace(Tail(ee_toks)) # Tail(ee_toks)
    /\ LET prop == parse_property(ee_values)
           s == StyleFromTokens(devour_whitespace(Tail(ee_toks)), BlockScope,
                                prop.property)
       IN /\ ee_toks' = s.rest
          /\ IF ~s.res.ok
             THEN /\ ExprReturn(FtErr(s.res.msg))
                  /\ UNCHANGED ee_values
             ELSE ExprStyle(s.style)

\* 479-481: ":" not followed by whitespace is a token of values.
ExprColon ==
    /\ ExprInLoop
    /\ ExprTok = ":"
    /\ devour_whitespace(Tail(ee_toks)) = Tail(ee_toks)
    /\ ee_values' = Append(ee_values, ExprTok)
    /\ ee_toks' = Tail(ee_toks)
    /\ UNCHANGED <<ee_stmts, ee_pc, ee_res, ee_run, ee_alt, ee_first,
                   ee_closed, notExprVars>>

\* 483-500: ";" ends the declaration held in values.
ExprSemicolon ==
    /\ ExprInLoop
    /\ ExprTok = ";"
    /\ ee_toks' = devour_whitespace(Tail(ee_toks))
    /\ LET v == devour_whitespace(ee_values) IN
       IF v = <<>>
       THEN ExprStyle(Style("", Null))
       ELSE ExprStyleOfValues(v)

\* 502-505: "}" with nothing in values ends the block.
ExprCloseEmpty ==
    /\ ExprInLoop
    /\ ExprTok = "}"
    /\ ee_values = <<>>
    /\ ee_toks' = devour_whitespace(Tail(ee_toks))
    /\ ExprReturn(FtOk)
    /\ UNCHANGED ee_values

\* A "}" behind a declaration that is consumed with it.
ExprCloseStyleEat ==
    /\ ExprInLoop
    /\ ExprTok = "}"
    /\ ee_values # <<>>
    /\ ee_toks' = devour_whitespace(Tail(ee_toks))
    /\ ExprStyleOfValues(ee_values)

\* 506-515: "}" behind a declaration without semicolon: the style is
\* returned and the "}" stays in the stream.
ExprCloseStyle ==
    /\ ExprInLoop
    /\ ExprTok = "}"
    /\ ee_values # <<>>
    /\ UNCHANGED ee_toks
    /\ ExprStyleOfValues(ee_values)

\* 526-551: "$" in a value that has no whitespace before it: the name is
\* read and, no ":" following, the arm ends in todo!().
ExprDollarTodo ==
    /\ ExprInLoop
    /\ ExprTok = "$"
    /\ LET name == eat_ident(Tail(ee_toks)) IN
       /\ name.rest # <<>> => Head(name.rest) \notin {":", "="}
       /\ ee_toks' = name.rest
    /\ ExprReturn(FtPanic)
    /\ UNCHANGED ee_values

\* 611: any other token goes to values.
ExprOther ==
    /\ ExprInLoop
    /\ ExprTok \notin {":", ";", "}", "$"}
    /\ ee_values' = Append(ee_values, ExprTok)
    /\ ee_toks' = Tail(ee_toks)
    /\ UNCHANGED <<ee_stmts, ee_pc, ee_res, ee_run, ee_alt, ee_first,
                   ee_closed, notExprVars>>

\* 467, 612: the stream is exhausted: Ok(None), whatever values holds.
ExprEnd ==
    /\ ee_pc = "expr"
    /\ ee_toks = <<>>
    /\ ExprReturn(FtOk)
    /\ UNCHANGED <<ee_toks, ee_values>>

\* The block with the semicolon is done; the same block without it is
\* parsed from the start.
ExprSecondRun ==
    /\ ee_pc = "done"
    /\ ee_run = 1
    /\ ee_first' = [res |-> ee_res, stmts |-> ee_stmts, toks |-> ee_toks]
    /\ ee_toks' = ee_alt
    /\ ee_values' = <<>>
    /\ ee_stmts' = <<>>
    /\ ee_pc' = "expr"
    /\ ee_res' = FtRunning
    /\ ee_run' = 2
    /\ UNCHANGED <<ee_alt, ee_closed, notExprVars>>

\* Inputs: a block is up to MaxDecls declarations with their semicolons, a
\* last declaration "p", ":" and a value with optional whitespace around
\* them, the closing brace, and what follows the block.
EarlierDecls ==
    {<<"q", ":", "2", ";">>, <<"q", ":", " ", "2", ";", " ">>}
OptSpace == {<<>>, <<" ">>}
DeclValues == {<<"1">>, <<"1", " ", "2">>, <<"$", "x">>, <<"$", "u">>}
AfterBlock == {<<>>, <<" ", "b">>, <<"}">>}
NoRun == [res |-> FtRunning, stmts |-> <<>>, toks |-> <<>>]
IdleExpr ==
    /\ ee_toks = <<>>
    /\ ee_values = <<>>
    /\ ee_stmts = <<>>
    /\ ee_pc = "done"
    /\ ee_res = FtRunning
    /\ ee_run = 2
    /\ ee_alt = <<>>
    /\ ee_first = NoRun
    /\ ee_closed = FALSE
InitEatExpr ==
    /\ \E k \in 0..MaxDecls : \E ds \in [1..k -> EarlierDecls] :
       \E s1 \in OptSpace, s2 \in OptSpace, s3 \in OptSpace, s4 \in OptSpace :
       \E val \in DeclValues, after \in AfterBlock, closed \in BOOLEAN :
          LET decl == Concat(ds) \o <<"p">> \o s1 \o <<":">> \o s2 \o val \o s3
              end == IF closed THEN <<"}">> \o after ELSE <<>>
          IN /\ ee_toks = decl \o <<";">> \o s4 \o end
             /\ ee_alt = decl \o s4 \o end
             /\ ee_closed = closed
    /\ ee_values = <<>>
    /\ ee_stmts = <<>>
    /\ ee_pc = "expr"
    /\ ee_res = FtRunning
    /\ ee_run = 1
    /\ ee_first = NoRun

\* ---- Claims about eat_expr ----
ExprBothRun == ee_run = 2 /\ ee_pc = "done" /\ ee_closed

---------------------------------------------------------------------------
InitIf == InitIfEval /\ IdleCall /\ IdleArgs /\ IdleTokens /\ IdleTop /\ IdleSession /\ IdleMap /\ IdleUnknown /\ IdleExpr
NextIf == EvalIf
SpecIf == InitIf /\ [][NextIf]_vars

InitCall == InitFnCall /\ IdleIf /\ IdleArgs /\ IdleTokens /\ IdleTop /\ IdleSession /\ IdleMap /\ IdleUnknown /\ IdleExpr
NextCall ==
    \/ CallReturn
    \/ CallFor
    \/ CallIf
    \/ CallIfLet
    \/ CallOther
    \/ CallFinish
SpecCall == InitCall /\ [][NextCall]_vars

InitArgs == InitFnArgs /\ IdleIf /\ IdleCall /\ IdleTokens /\ IdleTop /\ IdleSession /\ IdleMap /\ IdleUnknown /\ IdleExpr
NextArgs ==
    \/ ArgsVariadic
    \/ ArgsPositional
    \/ ArgsNamed
    \/ ArgsDefault
    \/ ArgsMissing
    \/ ArgsDone
SpecArgs == InitArgs /\ [][NextArgs]_vars

InitTokens == InitFromTokens /\ IdleIf /\ IdleCall /\ IdleArgs /\ IdleTop /\ IdleSession /\ IdleMap /\ IdleUnknown /\ IdleExpr
NextTokens ==
    \/ FromTokensInit
    \/ LoopEnd
    \/ LoopNotAt
    \/ LoopAtAlone
    \/ LoopNotE
    \/ LoopNotElse
    \/ LoopElseEnd
    \/ LoopElseIfAlone
    \/ LoopElseIf
    \/ LoopElseBody
    \/ LoopElseErr
    \/ FromTokensFinish
SpecTokens == InitTokens /\ [][NextTokens]_vars

InitTop == InitTopLevel /\ IdleIf /\ IdleCall /\ IdleArgs /\ IdleTokens /\ IdleSession /\ IdleMap /\ IdleUnknown /\ IdleExpr
NextTop ==
    \/ TopEatRules
    \/ TopWhitespace
    \/ TopVariable
    \/ TopComment
    \/ TopCharset
    \/ TopReturn
    \/ TopContent
    \/ TopIf
    \/ TopUnknown
    \/ TopAmp
    \/ TopUnexpected
    \/ TopFinish
    \/ RulesValueToken
    \/ RulesStyle
    \/ RulesIf
    \/ RulesContent
    \/ RulesReturn
    \/ RulesCharset
    \/ RulesUnknown
    \/ RulesSelector
    \/ RulesEnd
    \/ RulesVariable
    \/ RulesComment
SpecTop == InitTop /\ [][NextTop]_vars

InitFn == InitSession /\ IdleArgs /\ IdleCall /\ IdleIf /\ IdleTokens /\ IdleTop /\ IdleMap /\ IdleUnknown /\ IdleExpr
NextFn ==
    \/ DeclFromTokens
    \/ BeginCall
    \/ ArgsVariadic
    \/ ArgsPositional
    \/ ArgsNamed
    \/ ArgsDefault
    \/ ArgsMissing
    \/ ArgsDone
    \/ EnterCall
    \/ CallReturn
    \/ CallFor
    \/ CallIf
    \/ CallIfLet
    \/ CallOther
    \/ CallFinish
    \/ EndCall
SpecFn == InitFn /\ [][NextFn]_vars

InitMap ==
    /\ InitSassMap /\ IdleArgs /\ IdleCall /\ IdleIf /\ IdleTokens /\ IdleTop
    /\ IdleSession /\ IdleUnknown /\ IdleExpr
NextMap ==
    \/ MapInsert
    \/ MapRemove
    \/ MapMerge
    \/ MapGet
SpecMap == InitMap /\ [][NextMap]_vars

InitUnk ==
    /\ InitUnknown /\ IdleArgs /\ IdleCall /\ IdleIf /\ IdleTokens /\ IdleTop
    /\ IdleSession /\ IdleMap /\ IdleExpr
NextUnk ==
    \/ ParamsBrace
    \/ ParamsEnd
    \/ ParamsHashAlone
    \/ ParamsInterpolation
    \/ ParamsHash
    \/ ParamsWhitespace
    \/ ParamsOther
    \/ FromTokensBody
SpecUnk == InitUnk /\ [][NextUnk]_vars

InitExpr ==
    /\ InitEatExpr /\ IdleArgs /\ IdleCall /\ IdleIf /\ IdleTokens /\ IdleTop
    /\ IdleSession /\ IdleMap /\ IdleUnknown
NextExpr ==
    \/ ExprColonSpace
    \/ ExprColon
    \/ ExprSemicolon
    \/ ExprCloseEmpty
    \/ ExprCloseStyle
    \/ ExprDollarTodo
    \/ ExprOther
    \/ ExprEnd
    \/ ExprSecondRun
SpecExpr == InitExpr /\ [][NextExpr]_vars

=============================================================================
